---- MODULE Spec2Model ----
(***************************************************************************)
(* Verification model of the paginated report aggregator of cdr_all:      *)
(*   reportFetcher.js  (src/unnamed/part_002)                              *)
(*   server.js         (src/unnamed/part_000)                              *)
(*                                                                         *)
(* Each exported fetch function is one state machine over its own group    *)
(* of variables.  A specification runs one function (one call of it)       *)
(* against an upstream that answers every request nondeterministically.   *)
(***************************************************************************)
EXTENDS Integers, Sequences, FiniteSets, TLC

(***************************************************************************)
(* Program constants                                                       *)
(***************************************************************************)
\* const MAX_RETRIES = 3;
MAX_RETRIES == 3

\* if (consecutiveSameKey >= 3)
SameKeyLimit == 3

\* `let startKey;` / an absent next_start_key: no cursor
NoKey == 0

\* `pageCount < 5`: page fetches of the offset phase of fetchReportMultiPage
MaxOffsetPages == 5

\* `Math.min(14400, ...)`: longest sub-window, in seconds
ChunkSeconds == 14400

\* `Math.floor(totalDuration / 4)`
ChunkDivisor == 4

\* `consecutiveEmptyPages >= 2`
EmptyPageLimit == 2

\* `consecutiveDuplicatePages >= 2`
DuplicatePageLimit == 2

\* number of entries of `paginationAttempts`
EnhancedAttempts == 5

\* an absent `limit` query parameter (recordLimit = null)
NoLimit == 0

\* an absent start / end query parameter
NoDate == 0

(***************************************************************************)
(* Bounds of the upstream the functions are run against                    *)
(***************************************************************************)
\* number of cursor names the model tells apart
MaxKey == 3

\* number of records the upstream hands to one cursor-driven run
MaxOut == 2

\* number of different records a cursor-driven page can carry
MaxRec == 2

\* largest limit a paginated call is made with
MaxFPLimit == 3

\* Records are counted in units small enough to enumerate.  PageSize stands
\* for the upstream page of 500 records (`const pageSize = 500`, the `> 500`
\* tests of the route and of fetchReportSinglePageEnhanced, `limit: 500` of
\* the time slices); MaxLimit stands for the route's ceiling of 10000.
\* As in the source, the ceiling exceeds MaxOffsetPages * PageSize.
PageSize == 2
MaxLimit == 12

\* number of distinct records the upstream holds at most
MaxTotal == 11

\* failed upstream attempts within one request
MaxFail == 6

\* upstream answers of one request that deviate from a well-behaved upstream
MaxOdd == 2

\* sub-windows the model keeps of one time-slicing call
MaxChunks == 8

Keys == 1..MaxKey

\* `throw err` with the first error of the call in place of the caught one.
RethrownFirst(first, last) == first

\* Lines 293, 557 and 789: `throw err` in the catch of the last attempt; the
\* errors a call raised are numbered first..last in the order they were raised.
Rethrown(first, last) == last

\* a retry loop that does not double its delay
DelayConstant(k) == 1000

\* the i-th retry delay: `delay = 1_000 ... delay *= 2`
RECURSIVE Delay(_)
Delay(k) == IF k = 0 THEN 1000 ELSE 2 * Delay(k - 1)

VARIABLES
  \* ---- fetchReport ----
  fr_pc,               \* "idle" | "fetch" | "done" | "failed"
  startKey,            \* cursor of the next request (NoKey: none)
  seenStartKeys,       \* Set of cursors adopted so far
  consecutiveSameKey,  \* counter of same-cursor answers
  fr_attempt,          \* `attempt` of the retry loop
  fr_out,              \* `out`: records received so far
  fr_waits,            \* delays slept by the retry loop, in order
  fr_lastNext,         \* next_start_key of the last page received
  fr_lastClass,        \* how that cursor related to the run: "none" | "absent"
                       \*   | "same" | "seen" | "fresh"
  fr_pages,            \* pages received (saturates at PageCap)
  fr_requests,         \* cursors the requests were issued with (bounded runs only)
  fr_returned,         \* cursors the upstream has returned so far
  fr_unbounded,        \* TRUE: the upstream never runs out of new cursors
  fr_pageFails,        \* attempts that raised since the last page was received
  fr_thrown,           \* the error the call threw: its number among the errors
                       \*   the call raised, in order (0: none thrown)
  \* ---- fetchReportPaginated ----
  fp_pc,               \* "idle" | "fetch" | "done" | "failed"
  fp_limit,            \* `limit`
  currentStartKey,     \* cursor of the next request (NoKey: null)
  fp_attempt,          \* `attempt` of the retry loop
  fp_out,              \* `out`
  fp_result,           \* the object returned: data, hasMore, nextStartKey
  fp_pages,            \* pages received (saturates at PageCap)
  fp_thrown,           \* the error the call threw, as fr_thrown
  fp_delivered,        \* records returned by the earlier calls of a session
  fp_total,            \* records the well-behaved upstream of a session holds
                       \*   (0: the upstream answers anything)
  \* ---- GET /api/reports/:type (server.js) ----
  pc,                  \* where the request is: "idle" | "route" | "enh" |
                       \*   "enh_fallback" | "mp_loop" | "ts_test" | "ts_push" |
                       \*   "ts_fetch" | "ts_done" | "done" | "failed" | "badreq"
  reqLimit,            \* `limit` of the query, parsed (NoLimit: absent)
  recordLimit,         \* `recordLimit` (NoLimit: null)
  startDate,           \* params.startDate (NoDate: absent)
  endDate,             \* params.endDate (NoDate: absent)
  response,            \* the JSON response of a served request
  \* ---- fetchReportSinglePageEnhanced ----
  enh_i,               \* `i`, index into paginationAttempts
  \* ---- fetchReportSinglePage ----
  sp_attempt,          \* `attempt` of the call in progress
  sp_wait,             \* milliseconds slept before the attempt in progress
  inflight,            \* upstream requests issued and not yet settled
  sp_thrown,           \* the error the last failed call threw: its number
                       \*   among the errors that call raised (0: none thrown)
  \* ---- fetchReportMultiPage ----
  allRecords,
  seenRecords,
  currentOffset,
  hasMoreData,
  pageCount,
  consecutiveEmptyPages,
  consecutiveDuplicatePages,
  \* ---- fetchWithTimeSlicing ----
  ts_caller,           \* "mp": called by fetchReportMultiPage, "none": on its own
  remainingLimit,
  chunks,              \* the sub-windows built (the first MaxChunks of them)
  chunksOverflow,      \* more than MaxChunks sub-windows were built
  chunkStart,
  ts_i,                \* `i` of the fetch loop
  timeSliceRecords,
  \* ---- the upstream and what was asked of it ----
  upTotal,             \* records a well-behaved upstream holds for the request
  wb,                  \* every answer so far was the well-behaved one
  odd,                 \* answers so far that were not
  fails,               \* failed attempts so far
  gets,                \* HTTP GETs issued so far
  spCalls,             \* calls of fetchReportSinglePage so far
  firstCallThrew,      \* the first fetchReportSinglePage call exhausted its retries
  \* ---- a pure function applied to one input ----
  fn_pc,               \* "idle" | "input" | "done"
  fn_name,             \* the function applied ("none" before)
  fn_input,
  fn_output,
  \* ---- fetchAgentStatus / fetchAllAgentStatus (agentStatus.js) ----
  as_pc,               \* "idle" | "fetch": fetchAgentStatus is about to GET
                       \*   | "returned": fetchAgentStatus returned to
                       \*   fetchAllAgentStatus | "done" | "failed"
  as_driver,           \* "single": fetchAgentStatus called on its own,
                       \*   "all": by fetchAllAgentStatus, "none"
  as_maxRows,          \* `maxRows`
  as_startKey,         \* `startKey` of fetchAgentStatus
  as_next,             \* `nextStartKey` (NoKey: null)
  as_records,          \* `records`
  as_attempt,          \* `attempt` of the retry loop
  as_allRecords,       \* `allRecords` of fetchAllAgentStatus
  as_allKey            \* `startKey` of fetchAllAgentStatus

frVars == << fr_pc, startKey, seenStartKeys, consecutiveSameKey, fr_attempt,
             fr_out, fr_waits, fr_lastNext, fr_lastClass, fr_pages,
             fr_requests, fr_returned, fr_unbounded,
             fr_pageFails, fr_thrown >>
fpVars == << fp_pc, fp_limit, currentStartKey, fp_attempt, fp_out, fp_result,
             fp_pages, fp_thrown, fp_delivered, fp_total >>

mpVars == << pc, reqLimit, recordLimit, startDate, endDate, response, enh_i,
             sp_attempt, sp_wait, sp_thrown, inflight, allRecords, seenRecords,
             currentOffset, hasMoreData,
             pageCount, consecutiveEmptyPages, consecutiveDuplicatePages,
             ts_caller, remainingLimit, chunks, chunksOverflow, chunkStart, ts_i,
             timeSliceRecords, upTotal, wb, odd, fails, gets, spCalls,
             firstCallThrew >>

fnVars == << fn_pc, fn_name, fn_input, fn_output >>

asVars == << as_pc, as_driver, as_maxRows, as_startKey, as_next, as_records,
             as_attempt, as_allRecords, as_allKey >>

vars == << frVars, fpVars, mpVars, fnVars, asVars >>

PageCap == MaxKey + 2

(***************************************************************************)
(* fetchReport: the cursor pagination driver                               *)
(***************************************************************************)

\* Lines 263-289 without `seenStartKeys.add` of line 283.
FRAdvanceNoAdd(key, seen, same, next) ==
  IF next # NoKey
  THEN LET same1 == IF key = next THEN same + 1 ELSE 0 IN
       IF key = next /\ same1 >= SameKeyLimit
       THEN [stop |-> TRUE, key |-> key, seen |-> seen, same |-> same1]
       ELSE IF next \in seen
            THEN [stop |-> TRUE, key |-> key, seen |-> seen, same |-> same1]
            ELSE [stop |-> FALSE, key |-> next, seen |-> seen, same |-> same1]
  ELSE [stop |-> TRUE, key |-> key, seen |-> seen, same |-> same]

\* Lines 263-289 without the seen-set test of line 278.
FRAdvanceNoSeenCheck(key, seen, same, next) ==
  IF next # NoKey
  THEN LET same1 == IF key = next THEN same + 1 ELSE 0 IN
       IF key = next /\ same1 >= SameKeyLimit
       THEN [stop |-> TRUE, key |-> key, seen |-> seen, same |-> same1]
       ELSE [stop |-> FALSE, key |-> next, seen |-> seen \cup {next}, same |-> same1]
  ELSE [stop |-> TRUE, key |-> key, seen |-> seen, same |-> same]

\* Lines 263-289 with the cursor adopted (line 284) before the tests.
FRAdvanceAdoptFirst(key, seen, same, next) ==
  IF next # NoKey
  THEN LET same1 == IF key = next THEN same + 1 ELSE 0 IN
       IF key = next /\ same1 >= SameKeyLimit
       THEN [stop |-> TRUE, key |-> next, seen |-> seen, same |-> same1]
       ELSE IF next \in seen
            THEN [stop |-> TRUE, key |-> next, seen |-> seen, same |-> same1]
            ELSE [stop |-> FALSE, key |-> next, seen |-> seen \cup {next},
                  same |-> same1]
  ELSE [stop |-> TRUE, key |-> key, seen |-> seen, same |-> same]

\* Lines 263-289: what one received page does to the cursor state.
\*   stop: the `while (true)` loop is left (break)
FRAdvance(key, seen, same, next) ==
  IF next # NoKey
  THEN LET same1 == IF key = next THEN same + 1 ELSE 0 IN
       IF key = next /\ same1 >= SameKeyLimit
       THEN [stop |-> TRUE, key |-> key, seen |-> seen, same |-> same1]
       ELSE IF next \in seen
            THEN [stop |-> TRUE, key |-> key, seen |-> seen, same |-> same1]
            ELSE [stop |-> FALSE, key |-> next, seen |-> seen \cup {next},
                  same |-> same1]
  ELSE [stop |-> TRUE, key |-> key, seen |-> seen, same |-> same]

\* a loop detection that raises instead of breaking
AfterPageRaising(stop) == IF stop THEN "failed" ELSE "fetch"

\* Lines 270, 279, 287 and 290: every `break` of the while loop is followed by
\* `break retry`, and the function goes on to return; otherwise the loop
\* issues the next request.
AfterPage(stop) == IF stop THEN "done" ELSE "fetch"

\* How the cursor of an answer relates to the run so far: `key` is the cursor
\* the request was issued with, `returned` the cursors answered before.
FRClass(key, returned, next) ==
  IF next = NoKey THEN "absent"
  ELSE IF next = key THEN "same"
  ELSE IF next \in returned THEN "seen"
  ELSE "fresh"

\* The pages an upstream may answer with: up to one record each, within the
\* records the upstream holds.
FRChunks ==
  {<< >>} \cup (IF Len(fr_out) < MaxOut THEN {<<r>> : r \in 1..MaxRec} ELSE {})

\* The variables of a function that the specification at hand does not run.
IdleFR ==
  /\ fr_pc = "idle"
  /\ startKey = NoKey
  /\ seenStartKeys = {}
  /\ consecutiveSameKey = 0
  /\ fr_attempt = 0
  /\ fr_out = << >>
  /\ fr_waits = << >>
  /\ fr_lastNext = NoKey
  /\ fr_lastClass = "none"
  /\ fr_pages = 0
  /\ fr_requests = << >>
  /\ fr_returned = {}
  /\ fr_unbounded = FALSE
  /\ fr_pageFails = 0
  /\ fr_thrown = 0

NoResult == [data |-> << >>, hasMore |-> FALSE, nextStartKey |-> NoKey]

IdleFP ==
  /\ fp_pc = "idle"
  /\ fp_limit = 0
  /\ currentStartKey = NoKey
  /\ fp_attempt = 0
  /\ fp_out = << >>
  /\ fp_result = NoResult
  /\ fp_pages = 0
  /\ fp_thrown = 0
  /\ fp_delivered = << >>
  /\ fp_total = 0

NoResponse == [data |-> << >>, total |-> 0, limit |-> NoLimit, hasMore |-> FALSE,
               fetchMethod |-> "none"]

\* No pure function is being applied.
IdleFN ==
  /\ fn_pc = "idle"
  /\ fn_name = "none"
  /\ fn_input = [kind |-> "prim", items |-> << >>]
  /\ fn_output = [threw |-> FALSE, records |-> << >>]

\* Neither function of agentStatus.js is running.
IdleAS ==
  /\ as_pc = "idle"
  /\ as_driver = "none"
  /\ as_maxRows = 0
  /\ as_startKey = NoKey
  /\ as_next = NoKey
  /\ as_records = << >>
  /\ as_attempt = 0
  /\ as_allRecords = << >>
  /\ as_allKey = NoKey

\* GET /api/reports/:type is not running.
IdleReports ==
  /\ pc = "idle"
  /\ recordLimit = NoLimit
  /\ startDate = NoDate
  /\ endDate = NoDate
  /\ response = NoResponse
  /\ enh_i = 0
  /\ sp_attempt = 0
  /\ sp_wait = 0
  /\ inflight = 0
  /\ sp_thrown = 0
  /\ allRecords = << >>
  /\ seenRecords = {}
  /\ currentOffset = 0
  /\ hasMoreData = TRUE
  /\ pageCount = 0
  /\ consecutiveEmptyPages = 0
  /\ consecutiveDuplicatePages = 0
  /\ ts_caller = "none"
  /\ remainingLimit = 0
  /\ chunks = << >>
  /\ chunksOverflow = FALSE
  /\ chunkStart = 0
  /\ ts_i = 0
  /\ timeSliceRecords = << >>
  /\ upTotal = 0
  /\ wb = TRUE
  /\ odd = 0
  /\ fails = 0
  /\ gets = 0
  /\ spCalls = 0
  /\ firstCallThrew = FALSE

IdleMP ==
  /\ reqLimit = NoLimit
  /\ IdleReports

InitFRWith(unbounded) ==
  /\ IdleAS
  /\ IdleFP
  /\ IdleMP
  /\ IdleFN
  /\ fr_pc = "fetch"
  /\ startKey = NoKey
  /\ seenStartKeys = {}
  /\ consecutiveSameKey = 0
  /\ fr_attempt = 0
  /\ fr_out = << >>
  /\ fr_waits = << >>
  /\ fr_lastNext = NoKey
  /\ fr_lastClass = "none"
  /\ fr_pages = 0
  /\ fr_requests = << >>
  /\ fr_returned = {}
  /\ fr_unbounded \in unbounded
  /\ fr_pageFails = 0
  /\ fr_thrown = 0

\* One iteration of `while (true)` whose GET succeeds (lines 121-290).
\* `forget`: the answer carries a cursor value never returned before although
\* every name of Keys is in use; the name `next` is reused for it, the old
\* value it stood for is dropped from the model and never returned again.
FRPage ==
  /\ fr_pc = "fetch"
  /\ \E chunk \in FRChunks, next \in Keys \cup {NoKey}, forget \in BOOLEAN :
       /\ forget => /\ fr_unbounded
                    /\ fr_returned = Keys
                    /\ next \in Keys \ {startKey}
       /\ LET seen0 == IF forget THEN seenStartKeys \ {next} ELSE seenStartKeys
              r     == FRAdvance(startKey, seen0, consecutiveSameKey, next)
          IN /\ fr_out' = fr_out \o chunk
             /\ startKey' = r.key
             /\ seenStartKeys' = r.seen
             /\ consecutiveSameKey' = r.same
             /\ fr_pc' = AfterPage(r.stop)
             /\ fr_lastNext' = next
             /\ fr_lastClass' = FRClass(startKey,
                                         IF forget THEN fr_returned \ {next}
                                         ELSE fr_returned, next)
             /\ fr_returned' = IF next = NoKey THEN fr_returned
                                ELSE fr_returned \cup {next}
  /\ fr_pages' = IF fr_pages < PageCap THEN fr_pages + 1 ELSE fr_pages
  /\ fr_requests' = IF fr_unbounded THEN fr_requests
                    ELSE Append(fr_requests, startKey)
  /\ fr_pageFails' = 0
  /\ UNCHANGED << fr_attempt, fr_waits, fr_unbounded, fr_thrown, fpVars, mpVars, fnVars, asVars >>

\* a retry that starts over from the first page
CursorAfterErrorRestart(key) == NoKey

\* Line 115: `startKey` is declared outside the retry loop and the catch of
\* lines 292-296 does not assign it: the next attempt asks for the same page.
CursorAfterError(key) == key

\* The GET (or the token acquisition) raises: lines 292-296.
FRError ==
  /\ fr_pc = "fetch"
  /\ IF fr_attempt = MAX_RETRIES - 1
     THEN /\ fr_pc' = "failed"
          /\ fr_thrown' = Rethrown(1, fr_attempt + 1)
          /\ UNCHANGED << fr_attempt, fr_waits >>
     ELSE /\ fr_waits' = Append(fr_waits, Delay(fr_attempt))
          /\ fr_attempt' = fr_attempt + 1
          /\ fr_pc' = "fetch"
          /\ UNCHANGED fr_thrown
  /\ fr_requests' = IF fr_unbounded THEN fr_requests
                    ELSE Append(fr_requests, startKey)
  /\ fr_pageFails' = fr_pageFails + 1
  /\ startKey' = CursorAfterError(startKey)
  /\ UNCHANGED << seenStartKeys, consecutiveSameKey, fr_out,
                  fr_lastNext, fr_lastClass, fr_pages, fr_returned,
                  fr_unbounded, fpVars, mpVars, fnVars, asVars >>

NextFR == FRPage \/ FRError

FRTerminated == fr_pc \in {"done", "failed"}

InitFR == InitFRWith({FALSE})
InitFRLive == InitFRWith({FALSE, TRUE})

SpecFR == InitFR /\ [][NextFR]_vars
SpecFRLive == InitFRLive /\ [][NextFR]_vars /\ WF_vars(NextFR)

(***************************************************************************)
(* fetchReportPaginated: the lazy-loading driver                           *)
(***************************************************************************)

\* `chunk.slice(0, n)`
Slice(seq, n) == IF n <= 0 THEN << >> ELSE SubSeq(seq, 1, IF n < Len(seq) THEN n ELSE Len(seq))

\* The pages an upstream may answer a paginated request with.
\* For limits above MaxFPLimit the records are all alike.
FPChunks ==
  LET recs == IF fp_limit > MaxFPLimit THEN {1} ELSE 1..MaxRec IN
  {<< >>} \cup {<<r>> : r \in recs} \cup {<<r, q>> : r, q \in recs}

InitFP ==
  /\ IdleAS
  /\ IdleFR
  /\ IdleMP
  /\ IdleFN
  /\ fp_pc = "fetch"
  /\ fp_limit \in 0..MaxFPLimit
  /\ currentStartKey \in Keys \cup {NoKey}
  /\ fp_attempt = 0
  /\ fp_out = << >>
  /\ fp_result = NoResult
  /\ fp_pages = 0
  /\ fp_thrown = 0
  /\ fp_delivered = << >>
  /\ fp_total = 0

\* Lines 549-554 with hasMore always true.
LoopExitResultAlwaysMore(out, key) ==
  [data |-> out, hasMore |-> TRUE, nextStartKey |-> key]

\* Lines 549-554: `hasMore: !!currentStartKey, nextStartKey: currentStartKey`.
LoopExitResult(out, key) ==
  [data |-> out, hasMore |-> key # NoKey, nextStartKey |-> key]

\* `while (out.length < limit)` is false: lines 549-554.
FPLoopExit ==
  /\ fp_pc = "fetch"
  /\ ~(Len(fp_out) < fp_limit)
  /\ fp_result' = LoopExitResult(fp_out, currentStartKey)
  /\ fp_pc' = "done"
  /\ UNCHANGED << fp_limit, currentStartKey, fp_attempt, fp_out, fp_pages,
                  fp_thrown, fp_delivered, fp_total, frVars, mpVars, fnVars, asVars >>

\* One iteration of the while loop whose GET succeeds with the page `chunk`
\* and the cursor `next`: lines 430-547.
FPReceive(chunk, next) ==
  /\ fp_pc = "fetch"
  /\ Len(fp_out) < fp_limit
  /\ LET remainingSlots == fp_limit - Len(fp_out)
         recordsToAdd   == Slice(chunk, remainingSlots)
         out1           == fp_out \o recordsToAdd
     IN /\ fp_out' = out1
        /\ IF next # NoKey
           THEN /\ currentStartKey' = next
                /\ IF Len(out1) >= fp_limit
                   THEN /\ fp_result' = [data |-> out1, hasMore |-> TRUE,
                                         nextStartKey |-> next]
                        /\ fp_pc' = "done"
                   ELSE /\ fp_pc' = "fetch"
                        /\ UNCHANGED fp_result
           ELSE /\ fp_result' = [data |-> out1, hasMore |-> FALSE,
                                 nextStartKey |-> NoKey]
                /\ fp_pc' = "done"
                /\ UNCHANGED currentStartKey
  /\ fp_pages' = IF fp_pages < PageCap THEN fp_pages + 1 ELSE fp_pages
  /\ UNCHANGED << fp_limit, fp_attempt, fp_thrown, fp_delivered, fp_total,
                  frVars, mpVars, fnVars, asVars >>

\* The same against an upstream that may answer anything.
FPPage == \E chunk \in FPChunks, next \in Keys \cup {NoKey} : FPReceive(chunk, next)

\* The GET raises: lines 556-560.
FPError ==
  /\ fp_pc = "fetch"
  /\ Len(fp_out) < fp_limit
  /\ IF fp_attempt = 2
     THEN /\ fp_pc' = "failed"
          /\ fp_thrown' = Rethrown(1, fp_attempt + 1)
          /\ UNCHANGED fp_attempt
     ELSE /\ fp_attempt' = fp_attempt + 1
          /\ fp_pc' = "fetch"
          /\ UNCHANGED fp_thrown
  /\ UNCHANGED << fp_limit, currentStartKey, fp_out, fp_result, fp_pages,
                  fp_delivered, fp_total, frVars, mpVars, fnVars, asVars >>

NextFP == FPLoopExit \/ FPPage \/ FPError

FPTerminated == fp_pc \in {"done", "failed"}

SpecFP == InitFP /\ [][NextFP]_vars
SpecFPLive == InitFP /\ [][NextFP]_vars /\ WF_vars(NextFP)

(***************************************************************************)
(* GET /api/reports/:type/paginated                                        *)
(***************************************************************************)
\* `parseInt(limit)` of the queries the model serves: 0, small ones, and one
\* above the ceiling of the plain route.
PRLimitChoices == {0, 1, MaxFPLimit, MaxLimit + 1}

InitPR ==
  /\ IdleAS
  /\ IdleFR
  /\ IdleReports
  /\ IdleFN
  /\ reqLimit \in PRLimitChoices
  /\ fp_pc = "route"
  /\ fp_limit = 0
  /\ currentStartKey \in Keys \cup {NoKey}
  /\ fp_attempt = 0
  /\ fp_out = << >>
  /\ fp_result = NoResult
  /\ fp_pages = 0
  /\ fp_thrown = 0
  /\ fp_delivered = << >>
  /\ fp_total = 0

\* Lines 108-143 of server.js: fetchReportPaginated is called with
\* `parseInt(limit)`.
PRDispatch ==
  /\ fp_pc = "route"
  /\ fp_limit' = reqLimit
  /\ fp_pc' = "fetch"
  /\ UNCHANGED << currentStartKey, fp_attempt, fp_out, fp_result, fp_pages,
                  fp_thrown, fp_delivered, fp_total, frVars, mpVars, fnVars, asVars >>

NextPR == PRDispatch \/ FPLoopExit \/ FPPage \/ FPError

SpecPR == InitPR /\ [][NextPR]_vars

(***************************************************************************)
(* Records and the upstream of the report routes                           *)
(***************************************************************************)
Min(a, b) == IF a < b THEN a ELSE b
Max(a, b) == IF a > b THEN a ELSE b

\* The record the upstream holds under catalogue number i.  Numbers
\* 1..MaxTotal are records of distinct calls, every third one without a
\* call_id; number MaxTotal + j is a second row of call j: the same identity
\* fields, other content.
Rec(i) ==
  LET j == IF i > MaxTotal THEN i - MaxTotal ELSE i IN
  [ call_id          |-> IF j % 3 = 0 THEN "" ELSE "c" \o ToString(j),
    caller_id_number |-> IF j % 3 = 0 THEN ToString(j) ELSE "7",
    callee_id_number |-> IF j % 2 = 0 THEN "" ELSE "8",
    timestamp        |-> ToString(j),
    called_time      |-> "",
    second_row       |-> i > MaxTotal ]

\* Lines 853-859 and 922-927, with a record whose call_id is never stored.
RecordIdCompositeOnly(record) ==
  record.caller_id_number \o "_" \o record.callee_id_number \o "_"
    \o record.timestamp \o "_" \o record.called_time

\* Lines 853-859 and 922-927: `recordId`.
RecordId(record) ==
  IF record.call_id # ""
  THEN record.call_id
  ELSE record.caller_id_number \o "_" \o record.callee_id_number \o "_"
         \o record.timestamp \o "_" \o record.called_time

\* Lines 851-868 without the `seenRecords.has` test.
RECURSIVE DedupNoCheck(_, _, _, _)
DedupNoCheck(page, all, seen, new) ==
  IF page = << >>
  THEN [all |-> all, seen |-> seen, new |-> new]
  ELSE DedupNoCheck(Tail(page), Append(all, Head(page)),
                    seen \cup {RecordId(Rec(Head(page)))}, new + 1)

\* Lines 851-868 with a later copy of a record taking the place of the one
\* kept before.
RECURSIVE DedupKeepLast(_, _, _, _)
DedupKeepLast(page, all, seen, new) ==
  IF page = << >>
  THEN [all |-> all, seen |-> seen, new |-> new]
  ELSE LET recordId == RecordId(Rec(Head(page))) IN
       IF recordId \notin seen
       THEN DedupKeepLast(Tail(page), Append(all, Head(page)),
                          seen \cup {recordId}, new + 1)
       ELSE DedupKeepLast(Tail(page),
                          [k \in 1..Len(all) |->
                             IF RecordId(Rec(all[k])) = recordId
                             THEN Head(page) ELSE all[k]],
                          seen, new)

\* Lines 851-868 and 921-934: the records of `page` whose recordId is new are
\* appended to `all`; `new` counts them.
RECURSIVE Dedup(_, _, _, _)
Dedup(page, all, seen, new) ==
  IF page = << >>
  THEN [all |-> all, seen |-> seen, new |-> new]
  ELSE LET recordId == RecordId(Rec(Head(page))) IN
       IF recordId \notin seen
       THEN Dedup(Tail(page), Append(all, Head(page)), seen \cup {recordId}, new + 1)
       ELSE Dedup(Tail(page), all, seen, new)

\* The page size a request with `limit` hint h asks for; the upstream caps at
\* PageSize.
Hint(h) == IF h = NoLimit THEN PageSize ELSE Min(h, PageSize)

\* The records p+1 .. p+n of an upstream that holds `total` records.
RunIn(p, n, total) == [k \in 1..Max(0, Min(n, total - p)) |-> p + k]

\* The second rows of the calls of `recs`.
SecondRows(recs) == [k \in 1..Len(recs) |-> recs[k] + MaxTotal]

\* A body is the sequence of items of the decoded payload; an item is one
\* record, or a numeric-keyed object that holds several.
PlainBody(recs) == [k \in 1..Len(recs) |-> [nested |-> FALSE, recs |-> <<recs[k]>>]]
NestedBody(recs) == << [nested |-> TRUE, recs |-> recs] >>

\* Lines 723-786 without the unwrapping of numeric-keyed items: one record per item.
RECURSIVE SPRecordsNoUnwrap(_)
SPRecordsNoUnwrap(body) ==
  IF body = << >> THEN << >>
  ELSE <<Head(body).recs[1]>> \o SPRecordsNoUnwrap(Tail(body))

\* Lines 723-786: the records of a body, numeric-keyed items unwrapped.
RECURSIVE SPRecords(_)
SPRecords(body) ==
  IF body = << >> THEN << >>
  ELSE Head(body).recs \o SPRecords(Tail(body))

\* What a well-behaved upstream answers a request for `h` records at `offset`.
WellBehaved(offset, h) == PlainBody(RunIn(offset, Hint(h), upTotal))

\* Other answers: one record more than asked for, delivered as one nested
\* item; the first page again (offset ignored); no record; second rows of
\* the first calls; a record and its second row in one page; a short page.
OddAnswers(offset, h) ==
  { NestedBody(RunIn(offset, Hint(h) + 1, MaxTotal)),
    PlainBody(RunIn(offset, Hint(h) + 1, MaxTotal)),
    PlainBody(RunIn(0, Hint(h), MaxTotal)),
    << >>,
    PlainBody(SecondRows(RunIn(0, Hint(h), MaxTotal))),
    PlainBody(RunIn(offset, 1, MaxTotal) \o SecondRows(RunIn(offset, 1, MaxTotal))),
    PlainBody(RunIn(offset, Hint(h) - 1, MaxTotal)) } \ {WellBehaved(offset, h)}

PageAnswers(offset, h) ==
  {WellBehaved(offset, h)} \cup (IF odd < MaxOdd THEN OddAnswers(offset, h) ELSE {})

\* A time slice is asked without offset: a well-behaved upstream answers with
\* at most PageSize of the records it holds.
SliceIsWellBehaved(body) ==
  /\ Len(SPRecords(body)) <= PageSize
  /\ \A k \in 1..Len(body) : ~body[k].nested /\ body[k].recs[1] <= upTotal

\* The answers to a slice: no record; the first records again; records not
\* fetched so far, PageSize of them or one more; the second row of call 1.
SliceAnswers ==
  LET q == Len(allRecords) + Len(timeSliceRecords) IN
  { body \in { << >>,
               PlainBody(RunIn(0, PageSize, MaxTotal)),
               PlainBody(RunIn(q, PageSize, MaxTotal)),
               PlainBody(RunIn(q, PageSize + 1, MaxTotal)),
               PlainBody(SecondRows(RunIn(0, 1, MaxTotal))) } :
      SliceIsWellBehaved(body) \/ odd < MaxOdd }

(***************************************************************************)
(* GET /api/reports/:type                                                  *)
(***************************************************************************)
\* a `limit` query parameter that is no positive integer
BadLimit == -1

\* `allRecords.slice(0, totalLimit)` left out.
MPReturnValueNoSlice(all, totalLimit) == all

\* Line 945: `allRecords.slice(0, totalLimit)`.
MPReturnValue(all, totalLimit) == Slice(all, totalLimit)

\* Lines 83-93: the response built from `data`.
Respond(data, method) ==
  /\ response' = [data |-> data, total |-> Len(data), limit |-> recordLimit,
                  hasMore |-> (recordLimit # NoLimit /\ Len(data) >= recordLimit),
                  fetchMethod |-> method]
  /\ pc' = "done"

\* `start` of the requests the model serves, in seconds
T0 == 1000

LimitChoices ==
  {BadLimit, NoLimit} \cup (1..(PageSize + 2)) \cup {MaxLimit - 1, MaxLimit + 1}

\* Durations of the requested range, in seconds.
Durations == {3, 16 * 3600}

TotalChoices == {0, PageSize, PageSize + 1, MaxTotal}

InitMP ==
  /\ IdleAS
  /\ IdleFR
  /\ IdleFP
  /\ IdleFN
  /\ pc = "route"
  /\ reqLimit \in LimitChoices
  /\ recordLimit = NoLimit
  /\ \/ startDate = NoDate /\ endDate = NoDate
     \/ startDate = T0 /\ endDate \in {T0 + d : d \in Durations}
  /\ response = NoResponse
  /\ enh_i = 0
  /\ sp_attempt = 0
  /\ sp_wait = 0
  /\ inflight = 0
  /\ sp_thrown = 0
  /\ allRecords = << >>
  /\ seenRecords = {}
  /\ currentOffset = 0
  /\ hasMoreData = TRUE
  /\ pageCount = 0
  /\ consecutiveEmptyPages = 0
  /\ consecutiveDuplicatePages = 0
  /\ ts_caller = "none"
  /\ remainingLimit = 0
  /\ chunks = << >>
  /\ chunksOverflow = FALSE
  /\ chunkStart = 0
  /\ ts_i = 0
  /\ timeSliceRecords = << >>
  /\ upTotal \in TotalChoices
  /\ wb = TRUE
  /\ odd = 0
  /\ fails = 0
  /\ gets = 0
  /\ spCalls = 0
  /\ firstCallThrew = FALSE

routeVars == << reqLimit, startDate, endDate, upTotal >>
enhVars == << enh_i >>
mpLoopVars == << allRecords, seenRecords, currentOffset, hasMoreData, pageCount,
                 consecutiveEmptyPages, consecutiveDuplicatePages >>
tsVars == << ts_caller, remainingLimit, chunks, chunksOverflow, chunkStart, ts_i,
             timeSliceRecords >>

\* The states in which fetchReportSinglePage is being called.
SPCallSites == {"enh", "enh_fallback", "mp_loop", "ts_fetch"}

\* `i < chunks.length && timeSliceRecords.length < remainingLimit`
TSFetchCond ==
  ts_i < Len(chunks) /\ Len(timeSliceRecords) < remainingLimit

\* A call of fetchReportSinglePage is due or in progress.
SPCalling == pc \in SPCallSites /\ (pc = "ts_fetch" => TSFetchCond)

\* a request that is left pending when the code moves on
AfterSettledNotAwaited(n) == n

\* `await axios.get(...)` (line 684): the code after a request runs when the
\* request has settled.
AfterSettled(n) == n - 1

\* The requests in flight after a step that starts with `n` of them and runs
\* to the next await or to the end: the step issues a request when it stops at
\* a call of fetchReportSinglePage.
Pending(n) == inflight' = IF SPCalling' THEN n + 1 ELSE n

\* Line 73 with `>=` in place of `>`.
UsesMultiPageFromPageSize(limit) == limit # NoLimit /\ limit >= PageSize

\* Line 73: `recordLimit && recordLimit > 500`.
UsesMultiPage(limit) == limit # NoLimit /\ limit > PageSize

\* Lines 48-81: the limit is validated and clamped, the strategy chosen.
RouteDispatch ==
  /\ pc = "route"
  /\ IF reqLimit = BadLimit
     THEN pc' = "badreq" /\ UNCHANGED recordLimit
     ELSE LET limit1 == IF reqLimit # NoLimit /\ reqLimit > MaxLimit
                        THEN MaxLimit ELSE reqLimit
          IN /\ recordLimit' = limit1
             /\ pc' = IF UsesMultiPage(limit1) THEN "mp_loop" ELSE "enh"
  /\ UNCHANGED << routeVars, response, enhVars, sp_attempt, sp_wait, sp_thrown, mpLoopVars, tsVars,
                  wb, odd, fails, gets, spCalls, firstCallThrew, frVars, fpVars, fnVars, asVars >>
  /\ Pending(inflight)

(***************************************************************************)
(* fetchReportSinglePage, as called from the four call sites               *)
(***************************************************************************)
\* One more GET is issued; it is the first of its call when sp_attempt = 0.
Attempted ==
  /\ gets' = gets + 1
  /\ spCalls' = IF sp_attempt = 0 THEN spCalls + 1 ELSE spCalls

\* Line 789 with one attempt more before the error is thrown.
MayRetryOnceMore(attempt) == attempt < MAX_RETRIES

\* Lines 581 and 789: a failed attempt is followed by another one.
MayRetry(attempt) == attempt < MAX_RETRIES - 1

\* An attempt that is not the last raises: lines 788-792.
SPRetry ==
  /\ SPCalling
  /\ MayRetry(sp_attempt)
  /\ fails < MaxFail
  /\ sp_attempt' = sp_attempt + 1
  /\ sp_wait' = Delay(sp_attempt)
  /\ fails' = fails + 1
  /\ wb' = FALSE
  /\ Attempted
  /\ UNCHANGED << pc, routeVars, recordLimit, response, enhVars, mpLoopVars, tsVars,
                  odd, firstCallThrew, sp_thrown, frVars, fpVars, fnVars, asVars >>
  /\ Pending(AfterSettled(inflight))

\* The last attempt raises and the call throws: the bookkeeping.
Threw ==
  /\ sp_attempt = MAX_RETRIES - 1
  /\ fails < MaxFail
  /\ sp_attempt' = 0
  /\ sp_wait' = 0
  /\ sp_thrown' = Rethrown(1, sp_attempt + 1)
  /\ fails' = fails + 1
  /\ wb' = FALSE
  /\ firstCallThrew' = (firstCallThrew \/ spCalls = 1)
  /\ Attempted
  /\ UNCHANGED odd

\* An attempt succeeds with `body`: the bookkeeping.
Answered(body, wellBehaved) ==
  /\ sp_attempt' = 0
  /\ sp_wait' = 0
  /\ UNCHANGED sp_thrown
  /\ wb' = (wb /\ wellBehaved)
  /\ odd' = IF wellBehaved THEN odd ELSE odd + 1
  /\ Attempted
  /\ UNCHANGED << fails, firstCallThrew >>

(***************************************************************************)
(* fetchReportSinglePageEnhanced                                           *)
(***************************************************************************)
\* Line 1031 with the `> 500` test left out.
EnhWantsMoreAnyLimit(limit) == limit # NoLimit

\* Line 1031: `limit && limit > 500`.
EnhWantsMore(limit) == limit # NoLimit /\ limit > PageSize

\* Lines 1020-1038: attempt i returned `result`.
EnhOk ==
  /\ pc = "enh"
  /\ \E body \in PageAnswers(0, recordLimit) :
       LET result == SPRecords(body) IN
       /\ Answered(body, body = WellBehaved(0, recordLimit))
       /\ IF Len(result) > PageSize
          THEN Respond(result, "single-page") /\ UNCHANGED enh_i
          ELSE IF enh_i = 0
               THEN IF EnhWantsMore(recordLimit)
                    THEN enh_i' = 1 /\ UNCHANGED << pc, response >>
                    ELSE Respond(result, "single-page") /\ UNCHANGED enh_i
               ELSE IF enh_i = EnhancedAttempts - 1
                    THEN pc' = "enh_fallback" /\ UNCHANGED << enh_i, response >>
                    ELSE enh_i' = enh_i + 1 /\ UNCHANGED << pc, response >>
  /\ UNCHANGED << routeVars, recordLimit, mpLoopVars, tsVars, frVars, fpVars, fnVars, asVars >>
  /\ Pending(AfterSettled(inflight))

\* Lines 1039-1044: attempt i threw.
EnhThrow ==
  /\ pc = "enh"
  /\ Threw
  /\ IF enh_i = EnhancedAttempts - 1
     THEN pc' = "failed" /\ UNCHANGED enh_i
     ELSE enh_i' = enh_i + 1 /\ UNCHANGED pc
  /\ UNCHANGED << routeVars, recordLimit, response, mpLoopVars, tsVars, frVars, fpVars, fnVars, asVars >>
  /\ Pending(AfterSettled(inflight))

\* Line 1049: the call after the loop returned.
EnhFallbackOk ==
  /\ pc = "enh_fallback"
  /\ \E body \in PageAnswers(0, recordLimit) :
       /\ Answered(body, body = WellBehaved(0, recordLimit))
       /\ Respond(SPRecords(body), "single-page")
  /\ UNCHANGED << routeVars, recordLimit, enhVars, mpLoopVars, tsVars, frVars, fpVars, fnVars, asVars >>
  /\ Pending(AfterSettled(inflight))

\* Line 1049: the call after the loop threw (lines 94-104 answer 500).
EnhFallbackThrow ==
  /\ pc = "enh_fallback"
  /\ Threw
  /\ pc' = "failed"
  /\ UNCHANGED << routeVars, recordLimit, response, enhVars, mpLoopVars, tsVars,
                  frVars, fpVars, fnVars, asVars >>
  /\ Pending(AfterSettled(inflight))

(***************************************************************************)
(* fetchReportMultiPage                                                    *)
(***************************************************************************)
\* Line 819 without `pageCount < 5`.
MPWhileCondNoPageCap(all, more, pages) ==
  Len(all) < recordLimit /\ more

\* Line 819: the condition of the offset loop.
MPWhileCond(all, more, pages) ==
  Len(all) < recordLimit /\ more /\ pages < MaxOffsetPages

\* Line 913 with the time range not required.
MPWantsSlicingNoRange(all, duplicatePages, pages) ==
  /\ Len(all) < recordLimit
  /\ (duplicatePages >= 1 \/ (pages >= 2 /\ Len(all) = PageSize))

\* Line 913: the condition of the time-slicing fallback.
MPWantsSlicing(all, duplicatePages, pages) ==
  /\ Len(all) < recordLimit
  /\ (duplicatePages >= 1 \/ (pages >= 2 /\ Len(all) = PageSize))
  /\ startDate # NoDate /\ endDate # NoDate

\* Lines 912-945, entered when the offset loop is left with `all`: either
\* fetchWithTimeSlicing is called or the records are returned.
MPAfterLoop(all, duplicatePages, pages) ==
  IF MPWantsSlicing(all, duplicatePages, pages)
  THEN /\ pc' = "ts_test"
       /\ ts_caller' = "mp"
       /\ remainingLimit' = recordLimit - Len(all)
       /\ chunkStart' = startDate
       /\ chunks' = << >>
       /\ chunksOverflow' = FALSE
       /\ ts_i' = 0
       /\ timeSliceRecords' = << >>
       /\ UNCHANGED response
  ELSE /\ Respond(MPReturnValue(all, recordLimit), "multi-page")
       /\ UNCHANGED tsVars

\* Lines 873-883 without the reset of line 882.
NextDuplicatePagesNoReset(newRecords, count) ==
  IF newRecords = 0 THEN count + 1 ELSE count

\* Lines 873-883: `consecutiveDuplicatePages` after a non-empty page that
\* contributed `newRecords` new records.
NextDuplicatePages(newRecords, count) ==
  IF newRecords = 0 THEN count + 1 ELSE 0

\* Lines 820-896: one iteration of the offset loop whose page was fetched.
MPPageOk ==
  /\ pc = "mp_loop"
  /\ LET h == Min(PageSize, recordLimit - Len(allRecords)) IN
     \E body \in PageAnswers(currentOffset, h) :
       LET pageData == SPRecords(body)
           pages    == pageCount + 1
       IN /\ Answered(body, body = WellBehaved(currentOffset, h))
          /\ pageCount' = pages
          /\ IF Len(pageData) = 0
             THEN LET empty == consecutiveEmptyPages + 1 IN
                  /\ consecutiveEmptyPages' = empty
                  /\ UNCHANGED << allRecords, seenRecords, consecutiveDuplicatePages >>
                  /\ IF empty >= EmptyPageLimit
                     THEN /\ hasMoreData' = FALSE
                          /\ UNCHANGED currentOffset
                          /\ MPAfterLoop(allRecords, consecutiveDuplicatePages, pages)
                     ELSE /\ currentOffset' = currentOffset + PageSize
                          /\ UNCHANGED hasMoreData
                          /\ IF MPWhileCond(allRecords, hasMoreData, pages)
                             THEN UNCHANGED << pc, response, tsVars >>
                             ELSE MPAfterLoop(allRecords, consecutiveDuplicatePages, pages)
             ELSE LET d   == Dedup(pageData, allRecords, seenRecords, 0)
                      dup == NextDuplicatePages(d.new, consecutiveDuplicatePages)
                  IN /\ consecutiveEmptyPages' = 0
                     /\ allRecords' = d.all
                     /\ seenRecords' = d.seen
                     /\ consecutiveDuplicatePages' = dup
                     /\ IF d.new = 0 /\ dup >= DuplicatePageLimit
                        THEN /\ UNCHANGED << hasMoreData, currentOffset >>
                             /\ MPAfterLoop(d.all, dup, pages)
                        ELSE LET more == hasMoreData /\ ~(Len(pageData) < PageSize) IN
                             /\ hasMoreData' = more
                             /\ currentOffset' = currentOffset + Len(pageData)
                             /\ IF MPWhileCond(d.all, more, pages)
                                THEN UNCHANGED << pc, response, tsVars >>
                                ELSE MPAfterLoop(d.all, dup, pages)
  /\ UNCHANGED << routeVars, recordLimit, enhVars, frVars, fpVars, fnVars, asVars >>
  /\ Pending(AfterSettled(inflight))

\* a catch that swallows the error of the first page too
IsFirstPageNever(pages) == FALSE

\* Line 902: `pageCount === 1`.
IsFirstPage(pages) == pages = 1

\* Lines 898-909: the page fetch threw.
MPPageThrow ==
  /\ pc = "mp_loop"
  /\ Threw
  /\ pageCount' = pageCount + 1
  /\ IF IsFirstPage(pageCount + 1)
     THEN /\ pc' = "failed"
          /\ UNCHANGED << hasMoreData, response, tsVars >>
     ELSE /\ hasMoreData' = FALSE
          /\ MPAfterLoop(allRecords, consecutiveDuplicatePages, pageCount + 1)
  /\ UNCHANGED << routeVars, recordLimit, enhVars, allRecords, seenRecords,
                  currentOffset, consecutiveEmptyPages, consecutiveDuplicatePages,
                  frVars, fpVars, fnVars, asVars >>
  /\ Pending(AfterSettled(inflight))

(***************************************************************************)
(* fetchWithTimeSlicing                                                    *)
(***************************************************************************)
\* Line 960 without the division: always 4-hour chunks.
ChunkDurationFixed(startTime, endTime) == ChunkSeconds

\* Line 960: `chunkDuration`.
ChunkDuration(startTime, endTime) ==
  Min(ChunkSeconds, (endTime - startTime) \div ChunkDivisor)

\* Line 964 without the clipping: every sub-window runs to the end of the range.
ChunkEndAtEnd(start, chunkDuration, endTime) == endTime

\* Line 964: `chunkEnd`.
ChunkEnd(start, chunkDuration, endTime) == Min(start + chunkDuration, endTime)

\* Line 963: the test of the loop that builds the sub-windows.
TSTest ==
  /\ pc = "ts_test"
  /\ pc' = IF chunkStart < endDate THEN "ts_push" ELSE "ts_fetch"
  /\ UNCHANGED << routeVars, recordLimit, response, enhVars, sp_attempt, sp_wait, sp_thrown, mpLoopVars,
                  tsVars, wb, odd, fails, gets, spCalls, firstCallThrew,
                  frVars, fpVars, fnVars, asVars >>
  /\ Pending(inflight)

\* Lines 963-966: the body and the increment of that loop.
TSPush ==
  /\ pc = "ts_push"
  /\ LET chunkDuration == ChunkDuration(startDate, endDate)
         chunkEnd      == ChunkEnd(chunkStart, chunkDuration, endDate)
     IN /\ IF Len(chunks) < MaxChunks
           THEN /\ chunks' = Append(chunks, [startDate |-> chunkStart,
                                             endDate |-> chunkEnd])
                /\ UNCHANGED chunksOverflow
           ELSE /\ chunksOverflow' = TRUE
                /\ UNCHANGED chunks
        /\ chunkStart' = chunkStart + chunkDuration
  /\ pc' = "ts_test"
  /\ UNCHANGED << routeVars, recordLimit, response, enhVars, sp_attempt, sp_wait, sp_thrown, mpLoopVars,
                  ts_caller, remainingLimit, ts_i, timeSliceRecords,
                  wb, odd, fails, gets, spCalls, firstCallThrew, frVars, fpVars, fnVars, asVars >>
  /\ Pending(inflight)

\* Lines 972-995: the sub-window i was fetched.
TSChunkOk ==
  /\ pc = "ts_fetch"
  /\ TSFetchCond
  /\ \E body \in SliceAnswers :
       LET chunkData == SPRecords(body) IN
       /\ Answered(body, SliceIsWellBehaved(body))
       /\ timeSliceRecords' = timeSliceRecords \o chunkData
  /\ ts_i' = ts_i + 1
  /\ UNCHANGED << pc, routeVars, recordLimit, response, enhVars, mpLoopVars,
                  ts_caller, remainingLimit, chunks, chunksOverflow, chunkStart,
                  frVars, fpVars, fnVars, asVars >>
  /\ Pending(AfterSettled(inflight))

\* a catch that gives up the remaining sub-windows
AfterChunkErrorAbort(i) == Len(chunks)

\* Lines 996-999: the catch only logs, and the loop goes on with `i++`.
AfterChunkError(i) == i + 1

\* Lines 996-999: the fetch of sub-window i threw.
TSChunkThrow ==
  /\ pc = "ts_fetch"
  /\ TSFetchCond
  /\ Threw
  /\ ts_i' = AfterChunkError(ts_i)
  /\ UNCHANGED << pc, routeVars, recordLimit, response, enhVars, mpLoopVars,
                  ts_caller, remainingLimit, chunks, chunksOverflow, chunkStart,
                  timeSliceRecords, frVars, fpVars, fnVars, asVars >>
  /\ Pending(AfterSettled(inflight))

\* Lines 1002-1003, and lines 917-945 of the caller: the slices are merged
\* and the records returned.
TSReturn ==
  /\ pc = "ts_fetch"
  /\ ~TSFetchCond
  /\ IF ts_caller = "mp"
     THEN LET d == Dedup(timeSliceRecords, allRecords, seenRecords, 0) IN
          /\ allRecords' = d.all
          /\ seenRecords' = d.seen
          /\ Respond(MPReturnValue(d.all, recordLimit), "multi-page")
     ELSE /\ pc' = "ts_done"
          /\ UNCHANGED << allRecords, seenRecords, response >>
  /\ UNCHANGED << routeVars, recordLimit, enhVars, sp_attempt, sp_wait, sp_thrown, currentOffset,
                  hasMoreData, pageCount, consecutiveEmptyPages,
                  consecutiveDuplicatePages, tsVars, wb, odd, fails, gets, spCalls,
                  firstCallThrew, frVars, fpVars, fnVars, asVars >>
  /\ Pending(inflight)

NextTS == TSTest \/ TSPush \/ SPRetry \/ TSChunkOk \/ TSChunkThrow \/ TSReturn

NextMP ==
  \/ RouteDispatch
  \/ SPRetry
  \/ EnhOk \/ EnhThrow \/ EnhFallbackOk \/ EnhFallbackThrow
  \/ MPPageOk \/ MPPageThrow
  \/ TSTest \/ TSPush \/ TSChunkOk \/ TSChunkThrow \/ TSReturn

MPTerminated == pc \in {"done", "failed", "badreq"}

SpecMP == InitMP /\ [][NextMP]_vars

\* fetchWithTimeSlicing called on its own, for ranges of these durations.
TSDurations == {1, 2, 3, 4, 5, 7, 11, 16 * 3600, 16 * 3600 + 1, 20 * 3600}

InitTS ==
  /\ IdleAS
  /\ IdleFR
  /\ IdleFP
  /\ IdleFN
  /\ pc = "ts_test"
  /\ reqLimit = NoLimit
  /\ recordLimit = NoLimit
  /\ startDate = T0
  /\ endDate \in {T0 + d : d \in TSDurations}
  /\ response = NoResponse
  /\ enh_i = 0
  /\ sp_attempt = 0
  /\ sp_wait = 0
  /\ inflight = 0
  /\ sp_thrown = 0
  /\ allRecords = << >>
  /\ seenRecords = {}
  /\ currentOffset = 0
  /\ hasMoreData = TRUE
  /\ pageCount = 0
  /\ consecutiveEmptyPages = 0
  /\ consecutiveDuplicatePages = 0
  /\ ts_caller = "none"
  /\ remainingLimit \in 1..(PageSize + 1)
  /\ chunks = << >>
  /\ chunksOverflow = FALSE
  /\ chunkStart = startDate
  /\ ts_i = 0
  /\ timeSliceRecords = << >>
  /\ upTotal = MaxTotal
  /\ wb = TRUE
  /\ odd = 0
  /\ fails = 0
  /\ gets = 0
  /\ spCalls = 0
  /\ firstCallThrew = FALSE

TSTerminated == pc = "ts_done"

SpecTS == InitTS /\ [][NextTS]_vars
SpecTSLive == InitTS /\ [][NextTS]_vars /\ WF_vars(NextTS)

(***************************************************************************)
(* The three retry loops side by side: one call of fetchReport, of         *)
(* fetchReportPaginated, or of fetchWithTimeSlicing (whose requests are    *)
(* fetchReportSinglePage calls)                                            *)
(***************************************************************************)
InitRetry == InitFR \/ InitFP \/ InitTS

NextRetry == NextFR \/ NextFP \/ NextTS

SpecRetry == InitRetry /\ [][NextRetry]_vars

(***************************************************************************)
(* A session of fetchReportPaginated calls against a well-behaved upstream *)
(***************************************************************************)
\* The upstream holds the records 1..fp_total and serves them PageSize at a
\* time; the cursor of a page is the number of pages before it (NoKey, absent,
\* asks for the first page), and the last page carries no cursor.  The query
\* string of lines 431-471 carries the time range and `start_key` only, so the
\* page size is the upstream's own whatever `limit` is.
PSChunk(key) ==
  LET first == key * PageSize + 1
      last  == IF (key + 1) * PageSize < fp_total THEN (key + 1) * PageSize
               ELSE fp_total
  IN [i \in 1..(last - first + 1) |-> first + i - 1]

PSNext(key) == IF (key + 1) * PageSize < fp_total THEN key + 1 ELSE NoKey

\* Everything the upstream holds, in its order.
PSAll == [i \in 1..fp_total |-> i]

PSTotalChoices == 1..((MaxKey + 1) * PageSize)
PSLimitChoices == 0..(3 * PageSize + 1)

InitPS ==
  /\ IdleAS
  /\ IdleFR
  /\ IdleMP
  /\ IdleFN
  /\ fp_pc = "fetch"
  /\ fp_limit \in PSLimitChoices
  /\ fp_total \in PSTotalChoices
  /\ currentStartKey = NoKey
  /\ fp_attempt = 0
  /\ fp_out = << >>
  /\ fp_result = NoResult
  /\ fp_pages = 0
  /\ fp_thrown = 0
  /\ fp_delivered = << >>

\* The GET succeeds: the upstream answers with the page the cursor asks for.
PSPage == FPReceive(PSChunk(currentStartKey), PSNext(currentStartKey))

\* The caller asks for more: a new call with `startKey` set to the
\* nextStartKey of the previous result (line 419).
PSResume ==
  /\ fp_pc = "done"
  /\ fp_result.hasMore
  /\ fp_delivered' = fp_delivered \o fp_result.data
  /\ currentStartKey' = fp_result.nextStartKey
  /\ fp_out' = << >>
  /\ fp_attempt' = 0
  /\ fp_result' = NoResult
  /\ fp_pc' = "fetch"
  /\ UNCHANGED << fp_limit, fp_pages, fp_thrown, fp_total, frVars, mpVars,
                  fnVars, asVars >>

\* The session is over: the last call answered hasMore = false.
PSFinished == fp_pc = "done" /\ ~fp_result.hasMore

NextPS == PSPage \/ PSResume \/ FPLoopExit \/ FPError

SpecPS == InitPS /\ [][NextPS]_vars

(***************************************************************************)
(* Page normalization: the decoded body of one response                    *)
(***************************************************************************)
\* A decoded body `data` is [kind, items]:
\*   "null"     null
\*   "prim"     a number, a string or a boolean
\*   "empty"    {}
\*   "array"    [item, ...]
\*   "data"     {data: [item, ...]}
\*   "rows"     {rows: [item, ...]}
\*   "numeric"  {"0": item, "1": item, ...}, at least one key
\* with items as in PlainBody and NestedBody.  An element of a result is a
\* record of the upstream or NonRecord: an object that is none of them (a
\* numeric-keyed item left as it came, or the body itself).
NonRecord == 0

NormItems ==
  {[nested |-> FALSE, recs |-> <<r>>] : r \in 1..MaxRec}
    \cup {[nested |-> TRUE, recs |-> <<r>>] : r \in 1..MaxRec}
    \cup {[nested |-> TRUE, recs |-> <<r, q>>] : r, q \in 1..MaxRec}

NormBodies ==
  {<< >>} \cup {<<i>> : i \in NormItems} \cup {<<i, j>> : i, j \in NormItems}

Payloads ==
  {[kind |-> k, items |-> << >>] : k \in {"null", "prim", "empty"}}
    \cup {[kind |-> k, items |-> b] : k \in {"array", "data", "rows"}, b \in NormBodies}
    \cup {[kind |-> "numeric", items |-> b] : b \in NormBodies \ {<< >>}}

\* `data.data` (lines 238, 497, 704) of null is a TypeError, raised inside the
\* try of the retry loop.
Throws(data) == data.kind = "null"

\* Lines 237-259 of fetchReport: `chunk`, pushed to `out` element by element.
FRChunk(data) ==
  CASE data.kind = "data"    -> data.items
    [] data.kind = "array"   -> data.items
    [] data.kind = "rows"    -> data.items
    [] data.kind = "numeric" -> data.items
    [] data.kind = "empty"   -> << >>
    [] OTHER                 -> << >>

\* Lines 496-516 of fetchReportPaginated: the same tests, copied.
FPChunk(data) ==
  CASE data.kind = "data"    -> data.items
    [] data.kind = "array"   -> data.items
    [] data.kind = "rows"    -> data.items
    [] data.kind = "numeric" -> data.items
    [] data.kind = "empty"   -> << >>
    [] OTHER                 -> << >>

\* `out.push(...chunk)` (lines 259, 520): every item is one element of the
\* result, whatever it holds.
AsPushed(chunk) ==
  [k \in 1..Len(chunk) |-> IF chunk[k].nested THEN NonRecord ELSE chunk[k].recs[1]]

\* Lines 703-721 of fetchReportSinglePage: `rawData`; an object whose keys are
\* not all numeric, {} included, is wrapped whole (line 717).
SPRawData(data) ==
  CASE data.kind = "data"    -> data.items
    [] data.kind = "array"   -> data.items
    [] data.kind = "rows"    -> data.items
    [] data.kind = "numeric" -> data.items
    [] data.kind = "empty"   -> << [nested |-> FALSE, recs |-> <<NonRecord>>] >>
    [] OTHER                 -> << >>

\* The outcome of normalizing `data` in each of the three functions.
NormalizeFR(data) ==
  IF Throws(data) THEN [threw |-> TRUE, records |-> << >>]
  ELSE [threw |-> FALSE, records |-> AsPushed(FRChunk(data))]

NormalizeFP(data) ==
  IF Throws(data) THEN [threw |-> TRUE, records |-> << >>]
  ELSE [threw |-> FALSE, records |-> AsPushed(FPChunk(data))]

NormalizeSP(data) ==
  IF Throws(data) THEN [threw |-> TRUE, records |-> << >>]
  ELSE [threw |-> FALSE, records |-> SPRecords(SPRawData(data))]

Normalize(name, data) ==
  CASE name = "fetchReport"           -> NormalizeFR(data)
    [] name = "fetchReportPaginated"  -> NormalizeFP(data)
    [] name = "fetchReportSinglePage" -> NormalizeSP(data)

NoOutcome == [threw |-> FALSE, records |-> << >>]

InitNorm ==
  /\ IdleAS
  /\ IdleFR
  /\ IdleFP
  /\ IdleMP
  /\ fn_pc = "input"
  /\ fn_name = "none"
  /\ fn_input \in Payloads
  /\ fn_output = NoOutcome

Applied(name) ==
  /\ fn_pc = "input"
  /\ fn_name' = name
  /\ fn_output' = Normalize(name, fn_input)
  /\ fn_pc' = "done"
  /\ UNCHANGED << fn_input, frVars, fpVars, mpVars, asVars >>

NormFR == Applied("fetchReport")
NormFP == Applied("fetchReportPaginated")
NormSP == Applied("fetchReportSinglePage")

NextNorm == NormFR \/ NormFP \/ NormSP

SpecNorm == InitNorm /\ [][NextNorm]_vars

(***************************************************************************)
(* The two aggregations that detect pagination anomalies, side by side:    *)
(* one call of fetchReport, or one request to GET /api/reports/:type       *)
(***************************************************************************)
InitAnomaly == InitFR \/ InitMP

NextAnomaly == NextFR \/ NextMP

SpecAnomaly == InitAnomaly /\ [][NextAnomaly]_vars

(***************************************************************************)
(* The accumulation of fetched records: the report route, or the           *)
(* de-duplication step of fetchReportMultiPage applied to one page         *)
(***************************************************************************)
\* Records of the first MaxRec calls, both rows of each.
DedupRecords == (1..MaxRec) \cup {r + MaxTotal : r \in 1..MaxRec}

\* Pages of up to three such records.
DedupPages ==
  {<< >>} \cup {<<a>> : a \in DedupRecords}
    \cup {<<a, b>> : a, b \in DedupRecords}
    \cup {<<a, b, c>> : a, b, c \in DedupRecords}

\* `allRecords` as earlier pages may have left it: no recordId twice.
DedupAccumulated ==
  {<< >>} \cup {<<a>> : a \in DedupRecords}
    \cup {s \in {<<a, b>> : a, b \in DedupRecords} :
             RecordId(Rec(s[1])) # RecordId(Rec(s[2]))}

\* `seenRecords` for such an `allRecords` (lines 864-865 add to both).
SeenOf(all) == {RecordId(Rec(all[k])) : k \in 1..Len(all)}

InitDedup ==
  /\ IdleAS
  /\ IdleFR
  /\ IdleFP
  /\ IdleMP
  /\ fn_pc = "input"
  /\ fn_name = "none"
  /\ fn_input \in [page : DedupPages, all : DedupAccumulated]
  /\ fn_output = [all |-> << >>, seen |-> {}, new |-> 0]

\* Lines 851-868 for one page.
DedupApplied ==
  /\ fn_pc = "input"
  /\ fn_name' = "dedup"
  /\ fn_output' = Dedup(fn_input.page, fn_input.all, SeenOf(fn_input.all), 0)
  /\ fn_pc' = "done"
  /\ UNCHANGED << fn_input, frVars, fpVars, mpVars, asVars >>

InitAccumulate == InitMP \/ InitDedup

NextAccumulate == NextMP \/ DedupApplied

SpecAccumulate == InitAccumulate /\ [][NextAccumulate]_vars

(***************************************************************************)
(* fetchReport for the queueCalls report: the rows returned for the rows   *)
(* fetched                                                                 *)
(***************************************************************************)
\* Lines 321-334 with the rows that have no call_id dropped.
RECURSIVE FirstRowsDropNoId(_, _)
FirstRowsDropNoId(out, seen) ==
  IF out = << >> THEN << >>
  ELSE LET rec == Head(out) IN
       IF Rec(rec).call_id = ""
       THEN FirstRowsDropNoId(Tail(out), seen)
       ELSE IF Rec(rec).call_id \notin seen
            THEN <<rec>> \o FirstRowsDropNoId(Tail(out), seen \cup {Rec(rec).call_id})
            ELSE FirstRowsDropNoId(Tail(out), seen)

\* Lines 321-334: `firstRows`, built from `out` with the set `seen` of call_ids.
RECURSIVE FirstRows(_, _)
FirstRows(out, seen) ==
  IF out = << >> THEN << >>
  ELSE LET rec == Head(out) IN
       IF Rec(rec).call_id = ""
       THEN <<rec>> \o FirstRows(Tail(out), seen)
       ELSE IF Rec(rec).call_id \notin seen
            THEN <<rec>> \o FirstRows(Tail(out), seen \cup {Rec(rec).call_id})
            ELSE FirstRows(Tail(out), seen)

\* Rows of two calls with a call_id and of one without, and second rows of
\* two of them.
QueueRows == {1, 2, 3, 1 + MaxTotal, 3 + MaxTotal}

\* `out` after the paging loop: up to four rows.
QueueOuts ==
  {<< >>} \cup {<<a>> : a \in QueueRows}
    \cup {<<a, b>> : a, b \in QueueRows}
    \cup {<<a, b, c>> : a, b, c \in QueueRows}
    \cup {<<a, b, c, e>> : a, b, c, e \in QueueRows}

InitQueueCalls ==
  /\ IdleAS
  /\ IdleFR
  /\ IdleFP
  /\ IdleMP
  /\ fn_pc = "input"
  /\ fn_name = "none"
  /\ fn_input \in QueueOuts
  /\ fn_output = << >>

\* Lines 319-346: the post-processing of the queueCalls report.
QueueCallsReturn ==
  /\ fn_pc = "input"
  /\ fn_name' = "queueCalls"
  /\ fn_output' = FirstRows(fn_input, {})
  /\ fn_pc' = "done"
  /\ UNCHANGED << fn_input, frVars, fpVars, mpVars, asVars >>

SpecQueueCalls == InitQueueCalls /\ [][QueueCallsReturn]_vars

(***************************************************************************)
(* Items that embed a `cdrs` array: what fetchReport and                   *)
(* fetchReportSinglePage return for the items fetched                      *)
(***************************************************************************)
\* A fetched item is [cdrs, recs]: a record of its own (cdrs = FALSE, recs
\* holds it) or an object with a `cdrs` array (cdrs = TRUE, recs is the array,
\* which may be empty).
CdrItems ==
  {[cdrs |-> FALSE, recs |-> <<r>>] : r \in 1..MaxRec}
    \cup {[cdrs |-> TRUE, recs |-> << >>]}
    \cup {[cdrs |-> TRUE, recs |-> <<r>>] : r \in 1..MaxRec}
    \cup {[cdrs |-> TRUE, recs |-> <<r, q>>] : r, q \in 1..MaxRec}

CdrFetched ==
  {<< >>} \cup {<<i>> : i \in CdrItems} \cup {<<i, j>> : i, j \in CdrItems}

\* Lines 360-405 of fetchReport: the loop over `out` returns the processed
\* cdrs of the first item that has a `cdrs` array (line 400); without such an
\* item `out` is returned as it is.
RECURSIVE FRReturn(_, _)
FRReturn(out, k) ==
  IF k > Len(out) THEN [j \in 1..Len(out) |-> out[j].recs[1]]
  ELSE IF out[k].cdrs THEN out[k].recs
       ELSE FRReturn(out, k + 1)

InitCdrs ==
  /\ IdleAS
  /\ IdleFR
  /\ IdleFP
  /\ IdleMP
  /\ fn_pc = "input"
  /\ fn_name = "none"
  /\ fn_input \in CdrFetched
  /\ fn_output = << >>

\* fetchReport, for a report other than the two queue reports.
CdrsFR ==
  /\ fn_pc = "input"
  /\ fn_name' = "fetchReport"
  /\ fn_output' = FRReturn(fn_input, 1)
  /\ fn_pc' = "done"
  /\ UNCHANGED << fn_input, frVars, fpVars, mpVars, asVars >>

\* fetchReportSinglePage: lines 723-786 push the cdrs of every item
\* (line 760) and go on with the next item.
CdrsSP ==
  /\ fn_pc = "input"
  /\ fn_name' = "fetchReportSinglePage"
  /\ fn_output' = SPRecords(fn_input)
  /\ fn_pc' = "done"
  /\ UNCHANGED << fn_input, frVars, fpVars, mpVars, asVars >>

NextCdrs == CdrsFR \/ CdrsSP

SpecCdrs == InitCdrs /\ [][NextCdrs]_vars

(***************************************************************************)
(* Bodies that are a mapping: the last object branch of the normalization  *)
(***************************************************************************)
\* A mapping body is the sequence of its entries in Object.keys order; an
\* entry is [key, value] and a value is [rec, key]: the data of the value and
\* the `key` property the value itself carries ("" when it has none).
MapKeys == {"a", "b", "1"}

\* The test /^\d+$/ of lines 248, 506 and 713 on the keys above.
IsNumericKey(k) == k = "1"

MapValues == {[rec |-> r, key |-> o] : r \in 1..MaxRec, o \in {"", "own"}}

MapEntries == {[key |-> k, value |-> v] : k \in MapKeys, v \in MapValues}

\* Keys are distinct, and integer keys come first in Object.keys order.
MapBodies ==
  {<< >>} \cup {<<e>> : e \in MapEntries}
    \cup {m \in {<<e, f>> : e, f \in MapEntries} :
            m[1].key # m[2].key /\ ~IsNumericKey(m[2].key)}

AllNumericKeys(m) ==
  Len(m) > 0 /\ \A n \in 1..Len(m) : IsNumericKey(m[n].key)

\* Object.values(data): the values, as they are.
MapValuesOf(m) ==
  [n \in 1..Len(m) |-> [kind |-> "value", key |-> m[n].value.key,
                        value |-> m[n].value.rec]]

\* Object.entries(data).map(([k, v]) => ({ key: k, ...v })): the spread comes
\* after `key: k`, so a `key` property of the value replaces the injected one.
MapEntriesOf(m) ==
  [n \in 1..Len(m) |->
     [kind |-> "value",
      key |-> IF m[n].value.key # "" THEN m[n].value.key ELSE m[n].key,
      value |-> m[n].value.rec]]

\* Lines 245-256 of fetchReport and 503-514 of fetchReportPaginated.
MapChunk(m) == IF AllNumericKeys(m) THEN MapValuesOf(m) ELSE MapEntriesOf(m)

\* Lines 710-718 of fetchReportSinglePage: `rawData = [data]`; the item loop
\* then pushes that one item, the body itself (line 777).
MapRawData(m) ==
  IF AllNumericKeys(m) THEN MapValuesOf(m)
  ELSE << [kind |-> "body", key |-> "", value |-> 0] >>

MapNormalize(name, m) ==
  IF name = "fetchReportSinglePage" THEN MapRawData(m) ELSE MapChunk(m)

InitMap ==
  /\ IdleAS
  /\ IdleFR
  /\ IdleFP
  /\ IdleMP
  /\ fn_pc = "input"
  /\ fn_name = "none"
  /\ fn_input \in MapBodies
  /\ fn_output = << >>

MapApplied(name) ==
  /\ fn_pc = "input"
  /\ fn_name' = name
  /\ fn_output' = MapNormalize(name, fn_input)
  /\ fn_pc' = "done"
  /\ UNCHANGED << fn_input, frVars, fpVars, mpVars, asVars >>

MapFR == MapApplied("fetchReport")

MapFP == MapApplied("fetchReportPaginated")

MapSP == MapApplied("fetchReportSinglePage")

NextMap == MapFR \/ MapFP \/ MapSP

SpecMap == InitMap /\ [][NextMap]_vars

(***************************************************************************)
(* agentStatus.js: fetchAgentStatus and fetchAllAgentStatus                *)
(***************************************************************************)
\* agentStatus.js has its own MAX_RETRIES (line 17), with the value of the one
\* above.  PageSize stands for the 500 of lines 56, 62 and 155.

\* A page of n rows, one per extension.
ASRows(n) == [i \in 1..n |-> i]

\* The upstream may answer with more rows than the page size asked for.
ASChunkSizes == 0..(PageSize + 1)

ASMaxRowsChoices == 0..(PageSize + 1)

\* Rows the upstream serves to one fetchAllAgentStatus call before its pages
\* are empty.
MaxAll == 4

\* Line 62: `const limit = Math.min(maxRows, 500)`.
ASLimit(maxRows) == IF maxRows < PageSize THEN maxRows ELSE PageSize

ASPushNoSlice(records, chunk, limit) == records \o chunk

\* Lines 113-118: `remaining = limit - records.length`; when it is positive,
\* `records.push(...chunk.slice(0, remaining))`.
ASPush(records, chunk, limit) ==
  LET remaining == limit - Len(records)
  IN  IF remaining > 0
      THEN records \o SubSeq(chunk, 1,
                             IF remaining < Len(chunk) THEN remaining ELSE Len(chunk))
      ELSE records

\* fetchAgentStatus has been called (lines 59-62), on its own with any
\* maxRows and start_key, or by fetchAllAgentStatus (lines 151-155).
InitAS ==
  /\ IdleFR
  /\ IdleFP
  /\ IdleMP
  /\ IdleFN
  /\ as_pc = "fetch"
  /\ as_driver \in {"single", "all"}
  /\ IF as_driver = "all"
     THEN as_maxRows = PageSize /\ as_startKey = NoKey
     ELSE as_maxRows \in ASMaxRowsChoices /\ as_startKey \in 0..MaxKey
  /\ as_next = NoKey
  /\ as_records = << >>
  /\ as_attempt = 0
  /\ as_allRecords = << >>
  /\ as_allKey = NoKey

\* Line 141, `return { rows: records, next: nextStartKey }`, to the caller.
ASReturn ==
  as_pc' = IF as_driver = "all" THEN "returned" ELSE "done"

\* Lines 66-131: one pass of the `while (true)` whose GET answers with n rows
\* and the cursor `next`.
ASReceive(n, next) ==
  /\ as_pc = "fetch"
  /\ as_driver = "all" => Len(as_allRecords) + n <= MaxAll
  /\ as_next' = next
  /\ as_records' = ASPush(as_records, ASRows(n), ASLimit(as_maxRows))
  /\ IF Len(as_records') > 0
     THEN ASReturn /\ UNCHANGED as_startKey
     ELSE IF next = NoKey
          THEN ASReturn /\ UNCHANGED as_startKey
          ELSE as_startKey' = next /\ UNCHANGED as_pc
  /\ UNCHANGED << as_driver, as_maxRows, as_attempt, as_allRecords, as_allKey,
                  frVars, fpVars, mpVars, fnVars >>

\* Lines 134-138: the token, the GET or the format test raised.
ASThrow ==
  /\ as_pc = "fetch"
  /\ IF as_attempt = MAX_RETRIES - 1
     THEN as_pc' = "failed" /\ UNCHANGED as_attempt
     ELSE as_attempt' = as_attempt + 1 /\ UNCHANGED as_pc
  /\ UNCHANGED << as_driver, as_maxRows, as_startKey, as_next, as_records,
                  as_allRecords, as_allKey, frVars, fpVars, mpVars, fnVars >>

\* Lines 156-160 of fetchAllAgentStatus, after the await of line 155, and the
\* next call of fetchAgentStatus when the loop goes on.
ASAllContinue ==
  /\ as_pc = "returned"
  /\ as_allRecords' = as_allRecords \o as_records
  /\ IF as_next = NoKey
     THEN /\ as_pc' = "done"
          /\ UNCHANGED << as_allKey, as_startKey, as_next, as_records, as_attempt >>
     ELSE /\ as_allKey' = as_next
          /\ as_pc' = "fetch"
          /\ as_startKey' = as_next
          /\ as_next' = NoKey
          /\ as_records' = << >>
          /\ as_attempt' = 0
  /\ UNCHANGED << as_driver, as_maxRows, frVars, fpVars, mpVars, fnVars >>

NextAS ==
  \/ \E n \in ASChunkSizes : \E next \in 0..MaxKey : ASReceive(n, next)
  \/ ASThrow
  \/ ASAllContinue

ASTerminated == as_pc \in {"done", "failed"}

SpecAS == InitAS /\ [][NextAS]_vars
SpecASLive == InitAS /\ [][NextAS]_vars /\ WF_vars(NextAS)

(***************************************************************************)
(* Claims                                                                  *)
(***************************************************************************)

C4_StopsAtThirdSameCursor ==
  (fr_pc = "done" /\ fr_lastClass = "same") => consecutiveSameKey = SameKeyLimit

\* C5: when the upstream answers with a cursor it already returned earlier in
\* the run (a cycle such as A, B, A), the driver is done at that page and no
\* further request can be issued.
C5_CycleStops ==
  fr_lastClass = "seen" => (fr_pc = "done" /\ ~ENABLED NextFR)

\* C5 witness: the cycle A, B, A: the third page repeats the first cursor
\* while the second cursor was in use.
C5_Witness ==
  /\ fr_lastClass = "seen"
  /\ fr_pages = 3
  /\ fr_lastNext # startKey
  /\ Len(fr_requests) = 3
  /\ fr_requests[2] = fr_lastNext

MultiPageDone == pc = "done" /\ response.fetchMethod = "multi-page"
SinglePageDone == pc = "done" /\ response.fetchMethod = "single-page"

\* C1: the array fetchReportMultiPage returns holds at most L records,
\* whatever the upstream answered and whether or not time slicing ran.
C1_AtMostLimit == MultiPageDone => Len(response.data) <= recordLimit

\* C1 witness: more than L unique records were accumulated and L returned.
C1_Witness ==
  /\ MultiPageDone
  /\ Len(allRecords) > recordLimit
  /\ Len(response.data) = recordLimit

\* C2: no two records of the result of fetchReportMultiPage have the same
\* derived identity key.
C2_NoSharedKey ==
  MultiPageDone =>
    \A i, j \in 1..Len(response.data) :
      i # j => RecordId(Rec(response.data[i])) # RecordId(Rec(response.data[j]))

\* C2 witness: a time slice delivered the second row of a call whose first
\* row an offset page had delivered, and the result holds several records.
C2_Witness ==
  /\ MultiPageDone
  /\ ts_caller = "mp"
  /\ Len(response.data) >= 2
  /\ \E k \in 1..Len(timeSliceRecords) :
        /\ timeSliceRecords[k] > MaxTotal
        /\ \E i \in 1..Len(response.data) :
              response.data[i] = timeSliceRecords[k] - MaxTotal

\* C6 (as stated): against a well-behaved upstream fetchReportMultiPage
\* returns exactly min(L, total available) records.
C6_ReturnsMinOfLimitAndTotal ==
  (MultiPageDone /\ wb) => Len(response.data) = Min(recordLimit, upTotal)

SmallLimit == recordLimit # NoLimit /\ recordLimit <= PageSize

C8_SinglePageAtMostLimit ==
  (SinglePageDone /\ recordLimit # NoLimit) => Len(response.data) <= recordLimit

\* C9 (as stated): fetchReportPaginated terminates after finitely many page
\* fetches for every upstream behaviour.
C9_PaginatedTerminates == <>FPTerminated

\* The duration of sub-window k.
ChunkLen(k) == chunks[k].endDate - chunks[k].startDate

\* The list of sub-windows is complete: the fetch loop has been reached.
ChunksBuilt == pc \in {"ts_fetch", "ts_done"}

\* C11 (as stated): for every range with startDate < endDate the sub-windows
\* partition it exactly: the first starts at startDate, each starts where the
\* previous one ended, none is empty, and the last ends at endDate.
C11_SubWindowsPartition ==
  startDate < endDate =>
    /\ Len(chunks) > 0 => chunks[1].startDate = startDate
    /\ \A k \in 1..Len(chunks) : chunks[k].startDate < chunks[k].endDate
    /\ \A k \in 1..(Len(chunks) - 1) : chunks[k + 1].startDate = chunks[k].endDate
    /\ ChunksBuilt => Len(chunks) > 0 /\ chunks[Len(chunks)].endDate = endDate

\* C12: fetchWithTimeSlicing produces at least 4 sub-windows, none of them
\* longer than 4 hours (14400 seconds).
C12_AtLeastFourShortWindows ==
  /\ \A k \in 1..Len(chunks) : ChunkLen(k) <= ChunkSeconds
  /\ ChunksBuilt => Len(chunks) >= ChunkDivisor

\* C12 witness: a 16-hour range was cut into exactly four 4-hour sub-windows.
C12_Witness ==
  /\ pc = "ts_fetch"
  /\ Len(chunks) = ChunkDivisor
  /\ \A k \in 1..Len(chunks) : ChunkLen(k) = ChunkSeconds

\* C13 (as stated): all sub-windows of one request have the same duration.
C13_EqualDurations ==
  \A j, k \in 1..Len(chunks) : ChunkLen(j) = ChunkLen(k)

\* C13 (amended): all sub-windows but the last have the duration
\* chunkDuration = min(14400, floor(range / 4)); the last one is not longer.
C13_EqualButLast ==
  LET chunkDuration == ChunkDuration(startDate, endDate) IN
  /\ \A k \in 1..(Len(chunks) - 1) : ChunkLen(k) = chunkDuration
  /\ Len(chunks) > 0 => ChunkLen(Len(chunks)) <= chunkDuration

\* C13 witness: the list is built and its last sub-window is shorter than the first.
C13_Witness ==
  /\ pc = "ts_fetch"
  /\ Len(chunks) >= 2
  /\ ChunkLen(Len(chunks)) < ChunkLen(1)
  /\ ChunkLen(Len(chunks)) > 0

\* fetchReportMultiPage has called fetchWithTimeSlicing.
SlicingEntered == ts_caller = "mp"

\* The unique records accumulated when fetchWithTimeSlicing was called.
RecordsAtEntry == recordLimit - remainingLimit

\* C14 (as stated): the time-slicing fallback is entered only when fewer than
\* L unique records are accumulated, both startDate and endDate were supplied,
\* and the counter of consecutive zero-new-record pages has reached 2.
C14_SlicingOnlyAfterStagnation ==
  SlicingEntered =>
    /\ RecordsAtEntry < recordLimit
    /\ startDate # NoDate /\ endDate # NoDate
    /\ consecutiveDuplicatePages >= DuplicatePageLimit

\* C14 (amended): the time-slicing fallback is entered only when fewer than L
\* unique records are accumulated, both startDate and endDate were supplied,
\* and either the counter of consecutive zero-new-record pages is at least 1
\* or at least 2 pages were issued and exactly one page size (500) of unique
\* records is accumulated.
C14_SlicingOnlyWhenConditionHolds ==
  SlicingEntered =>
    /\ RecordsAtEntry < recordLimit
    /\ startDate # NoDate /\ endDate # NoDate
    /\ \/ consecutiveDuplicatePages >= 1
       \/ pageCount >= 2 /\ RecordsAtEntry = PageSize

\* C14 witness: the fallback was entered although no page was a duplicate page.
C14_Witness ==
  /\ SlicingEntered
  /\ consecutiveDuplicatePages = 0
  /\ pageCount >= 2
  /\ RecordsAtEntry = PageSize

\* C15 (as stated): once entered, the time-slicing fallback fetches
\* sub-windows until the running total of unique records reaches L or every
\* sub-window has been fetched.
C15_SlicesUntilLimitOrExhausted ==
  (pc = "done" /\ SlicingEntered) =>
    (Len(allRecords) >= recordLimit \/ ts_i = Len(chunks))

\* A step of the offset loop in which a page was received.
PageReceived ==
  pc = "mp_loop" /\ pageCount' = pageCount + 1 /\ fails' = fails

\* C16: the stagnation counter is incremented by each non-empty page that
\* contributes no new unique record, reset to 0 by each page that contributes
\* one, and no page is issued once it has reached 2.
C16_StagnationCounter ==
  [][ /\ PageReceived =>
           IF Len(allRecords') > Len(allRecords)
           THEN consecutiveDuplicatePages' = 0
           ELSE IF consecutiveEmptyPages' = 0
                THEN consecutiveDuplicatePages' = consecutiveDuplicatePages + 1
                ELSE consecutiveDuplicatePages' = consecutiveDuplicatePages
      /\ consecutiveDuplicatePages >= DuplicatePageLimit =>
           (pageCount' = pageCount /\ pc # "mp_loop") ]_vars

\* C16 witness: after a page with new records two pages in a row brought
\* none, and the offset loop was left.
C16_Witness ==
  /\ consecutiveDuplicatePages = DuplicatePageLimit
  /\ pageCount = 3
  /\ Len(allRecords) > 0
  /\ pc # "mp_loop"

\* C17 (as stated): a request whose limit exceeds the ceiling of 10,000 runs
\* with an effective limit of exactly 10,000, on the plain report route and on
\* the paginated route.
C17_LimitClamped ==
  /\ (pc \notin {"idle", "route", "badreq"} /\ reqLimit > MaxLimit) =>
        recordLimit = MaxLimit
  /\ (fp_pc \notin {"idle", "route"} /\ reqLimit > MaxLimit) =>
        fp_limit = MaxLimit

\* C18: a limit above 500 always runs fetchReportMultiPage, a limit of at
\* most 500 (500 included) or an absent limit always runs the single-page
\* path, and never both in one request.
C18_StrategyByLimit ==
  pc \notin {"idle", "route", "badreq"} =>
    IF recordLimit # NoLimit /\ recordLimit > PageSize
    THEN /\ pc \in {"mp_loop", "ts_test", "ts_push", "ts_fetch", "done", "failed"}
         /\ enh_i = 0
         /\ response.fetchMethod \in {"none", "multi-page"}
    ELSE /\ pc \in {"enh", "enh_fallback", "done", "failed"}
         /\ pageCount = 0 /\ ts_caller = "none" /\ allRecords = << >>
         /\ response.fetchMethod \in {"none", "single-page"}

\* C18 witness: a request for exactly one page size (500) was served by the
\* single-page path.
C18_Witness ==
  /\ pc = "done"
  /\ recordLimit = PageSize
  /\ response.fetchMethod = "single-page"
  /\ spCalls >= 1

\* C19: one call of fetchReportSinglePage issues at most 3 GETs; another
\* attempt follows only a raised error, and a successful attempt ends the call.
C19_AtMostThreeAttempts ==
  [][ /\ sp_attempt' <= MAX_RETRIES - 1
      /\ gets' <= MAX_RETRIES * spCalls'
      /\ sp_attempt' > sp_attempt => (fails' = fails + 1 /\ gets' = gets + 1)
      /\ (gets' = gets + 1 /\ fails' = fails) => sp_attempt' = 0 ]_vars

\* C19 witness: two attempts raised, the third succeeded and its records were
\* returned.
C19_Witness ==
  /\ pc = "done"
  /\ spCalls = 1
  /\ fails = MAX_RETRIES - 1
  /\ gets = MAX_RETRIES
  /\ Len(response.data) > 0

\* C20 (as stated): in the cursor drivers every page fetch may be attempted
\* up to 3 times; failures met while fetching earlier pages do not reduce the
\* attempts of a later page, so a run fails only when 3 attempts at one and
\* the same page have raised.
C20_RetryBudgetPerPage == fr_pc = "failed" => fr_pageFails = MAX_RETRIES

\* C21: after failed attempt number k that is not the final one the retry loop
\* waits 1000 * 2^k milliseconds before the next attempt; after a received
\* page and after the final failed attempt there is no wait.  fr_waits lists
\* the waits of a fetchReport call, sp_wait is the wait that preceded the
\* fetchReportSinglePage attempt in progress.
C21_BackoffDoubles ==
  [][ /\ fr_pageFails' = fr_pageFails + 1
         => fr_waits' = IF fr_attempt = MAX_RETRIES - 1
                        THEN fr_waits
                        ELSE Append(fr_waits, 1000 * 2^fr_attempt)
      /\ fr_pageFails' # fr_pageFails + 1 => fr_waits' = fr_waits
      /\ fails' = fails + 1
         => sp_wait' = IF sp_attempt = MAX_RETRIES - 1
                       THEN 0
                       ELSE 1000 * 2^sp_attempt
      /\ fails' = fails => sp_wait' = 0 ]_vars

\* fetchReport failed twice, waited 1000 ms and 2000 ms, and then completed.
C21_Witness == fr_pc = "done" /\ fr_waits = << 1000, 2000 >>

\* C22: when the final attempt of fetchReport, fetchReportPaginated or
\* fetchReportSinglePage fails, the call throws exactly the error that this
\* last attempt raised (the errors of a call are numbered as they are raised) and
\* returns no result; a call throws on no other occasion.
C22_RethrowsLastError ==
  [][ /\ IF fr_pageFails' = fr_pageFails + 1 /\ fr_attempt = MAX_RETRIES - 1
         THEN fr_pc' = "failed" /\ fr_thrown' = fr_attempt + 1
         ELSE fr_thrown' = fr_thrown /\ (fr_pc' = "failed" => fr_pc = "failed")
      /\ IF fp_pc = "fetch" /\ fp_pc' = "failed"
         THEN /\ fp_attempt = 2
              /\ fp_thrown' = fp_attempt + 1
              /\ fp_result' = NoResult
         ELSE fp_thrown' = fp_thrown
      /\ IF fails' = fails + 1 /\ sp_attempt = MAX_RETRIES - 1
         THEN sp_thrown' = sp_attempt + 1
         ELSE sp_thrown' = sp_thrown ]_vars

\* Two calls of fetchReportSinglePage have exhausted their retries; the second
\* threw the error of its third attempt.
C22_Witness == sp_thrown = MAX_RETRIES /\ fails = 2 * MAX_RETRIES

\* C23: in fetchReport a failed page fetch leaves the cursor, the cursor
\* bookkeeping and the records received so far as they were, the request that
\* follows a failed one carries the same cursor, and a received page only
\* appends to the output: the failures of a run that completes leave no trace
\* in the records it returns.
C23_RetrySameCursorKeepsRecords ==
  [][ /\ fr_pageFails' = fr_pageFails + 1
         => /\ startKey' = startKey
            /\ fr_out' = fr_out
            /\ seenStartKeys' = seenStartKeys
            /\ consecutiveSameKey' = consecutiveSameKey
      /\ (fr_pageFails > 0 /\ Len(fr_requests') = Len(fr_requests) + 1)
         => fr_requests'[Len(fr_requests')] = fr_requests[Len(fr_requests)]
      /\ Len(fr_out') >= Len(fr_out)
      /\ SubSeq(fr_out', 1, Len(fr_out)) = fr_out ]_vars

\* The first page was received, the request for the second one failed twice
\* and succeeded the third time, with the same cursor each time.
C23_Witness ==
  /\ fr_pc = "done"
  /\ fr_pages = 2
  /\ fr_attempt = 2
  /\ Len(fr_requests) = 4
  /\ fr_requests[2] # NoKey
  /\ fr_requests[3] = fr_requests[2]
  /\ fr_requests[4] = fr_requests[2]
  /\ Len(fr_out) >= 2

\* C24 (as stated): when fetchReportPaginated is called repeatedly against a
\* well-behaved upstream, each call resuming from the nextStartKey of the
\* previous one until hasMore is false, the returned data concatenated is the
\* upstream's full record sequence.
C24_SessionDeliversEverything ==
  (PSFinished /\ fp_limit >= 1) => fp_delivered \o fp_result.data = PSAll

\* C25 (as stated): with a limit between two and three pages against an
\* upstream of exactly three full pages, the third without a cursor, the call
\* returns exactly `limit` records with hasMore = true and a non-null
\* nextStartKey; with a limit of at least three pages it returns everything.
C25_PartialThirdPage ==
  (fp_pc = "done" /\ fp_delivered = << >> /\ fp_total = 3 * PageSize)
  => /\ fp_limit = 2 * PageSize + 1
        => /\ Len(fp_result.data) = fp_limit
           /\ fp_result.hasMore
           /\ fp_result.nextStartKey # NoKey
     /\ fp_limit >= 3 * PageSize => fp_result.data = PSAll

\* The records a body holds, in order, nested ones in place.
RECURSIVE RecordsOf(_)
RecordsOf(body) ==
  IF body = << >> THEN << >>
  ELSE Head(body).recs \o RecordsOf(Tail(body))

\* C26 (as stated): for a top-level array, a data or rows wrapper, a
\* pseudo-array object, and records that are themselves nested pseudo-arrays,
\* the normalization step of every fetch function gives the outcome it gives
\* for the plain array of the same records in the same order.
C26_ShapesEquivalentToArray ==
  (fn_pc = "done" /\ fn_input.kind \in {"array", "data", "rows", "numeric"})
  => fn_output = Normalize(fn_name, [kind |-> "array",
                                     items |-> PlainBody(RecordsOf(fn_input.items))])

\* C27 (as stated): a body of no recognized shape that yields no records (null,
\* a primitive, an empty object) normalizes to the empty sequence without an
\* error being raised.
C27_UnrecognizedBodyIsEmpty ==
  (fn_pc = "done" /\ fn_input.kind \in {"null", "prim", "empty"})
  => fn_output = [threw |-> FALSE, records |-> << >>]

\* C28: a stuck cursor, a cycling cursor or a stagnant page never makes the
\* aggregation fail: fetchReport and the report route fail only in a step in
\* which a request raised on its last attempt, and a page whose cursor is the
\* one just used or one seen before ends fetchReport normally, with the
\* records of that page appended to those received before.
C28_AnomaliesNeverRaise ==
  [][ /\ (fr_pc' = "failed" /\ fr_pc # "failed")
         => (fr_pageFails' = fr_pageFails + 1 /\ fr_attempt = MAX_RETRIES - 1)
      /\ (fr_pages' # fr_pages /\ fr_lastClass' \in {"same", "seen"})
         => /\ fr_pc' = "done"
            /\ Len(fr_out') >= Len(fr_out)
            /\ SubSeq(fr_out', 1, Len(fr_out)) = fr_out
      /\ (pc' = "failed" /\ pc # "failed")
         => (fails' = fails + 1 /\ sp_attempt = MAX_RETRIES - 1)
      /\ (consecutiveDuplicatePages' > consecutiveDuplicatePages
            \/ consecutiveEmptyPages' > consecutiveEmptyPages)
         => pc' # "failed" ]_vars

\* fetchReport was answered with a cursor it had seen before, and returned the
\* records it had.
C28_Witness == fr_pc = "done" /\ fr_lastClass = "seen" /\ Len(fr_out) >= 1

\* The records of `page`, from position k on, that are the first with their
\* identity key: no record of `all` and no earlier record of `page` has it.
RECURSIVE KeepFirst(_, _, _)
KeepFirst(all, page, k) ==
  IF k > Len(page) THEN << >>
  ELSE LET id    == RecordId(Rec(page[k]))
           fresh == /\ \A j \in 1..Len(all) : RecordId(Rec(all[j])) # id
                    /\ \A j \in 1..(k - 1) : RecordId(Rec(page[j])) # id
       IN (IF fresh THEN <<page[k]>> ELSE << >>) \o KeepFirst(all, page, k + 1)

\* C30: of several fetched records with the same identity key the copy kept is
\* the first one seen, and the accumulated records are in first-seen order:
\* a page adds, after what was accumulated, its first-seen records in page
\* order, and in the route what was accumulated is never reordered or replaced.
C30_FirstSeenKeptInOrder ==
  [][ /\ (fn_pc = "input" /\ fn_pc' = "done")
         => /\ fn_output'.all = fn_input.all \o KeepFirst(fn_input.all, fn_input.page, 1)
            /\ fn_output'.new = Len(fn_output'.all) - Len(fn_input.all)
      /\ Len(allRecords') >= Len(allRecords)
      /\ SubSeq(allRecords', 1, Len(allRecords)) = allRecords ]_vars

\* A page with a second copy of a record already accumulated, and a new record.
C30_Witness ==
  /\ fn_pc = "done"
  /\ fn_name = "dedup"
  /\ fn_output.new >= 1
  /\ Len(fn_output.all) < Len(fn_input.all) + Len(fn_input.page)
  /\ \E k \in 1..Len(fn_input.page) :
       RecordId(Rec(fn_input.page[k])) \in SeenOf(fn_input.all)

\* C29: within one aggregation call at most one upstream request is in flight
\* at any time, a request is in flight exactly while a call of
\* fetchReportSinglePage is in progress, and none is left when the call ends.
C29_OneRequestInFlight ==
  /\ inflight \in {0, 1}
  /\ inflight = 1 <=> SPCalling
  /\ MPTerminated => inflight = 0

\* A time-slice request is in flight, after the page requests have settled.
C29_Witness == pc = "ts_fetch" /\ inflight = 1 /\ pageCount >= 2 /\ ts_i >= 1

\* C33: in fetchReportMultiPage, when a page fetch still fails after its
\* retries, the error propagates if it is the first page; for a later page no
\* error is raised, offset paging stops with the accumulated records untouched,
\* and a call that returns right away returns exactly those records.
C33_LaterPageFailureKeepsRecords ==
  [][ (pc = "mp_loop" /\ fails' = fails + 1 /\ sp_attempt = MAX_RETRIES - 1)
      => IF pageCount = 0
         THEN pc' = "failed"
         ELSE /\ pc' \in {"done", "ts_test"}
              /\ hasMoreData' = FALSE
              /\ allRecords' = allRecords
              /\ pc' = "done" => response'.data = allRecords ]_vars

\* The fetch of a later page threw and the route answered with the records of
\* the earlier pages.
C33_Witness ==
  /\ pc = "done"
  /\ response.fetchMethod = "multi-page"
  /\ sp_thrown = MAX_RETRIES
  /\ chunks = << >>
  /\ pageCount >= 2
  /\ Len(response.data) >= 1

\* C34: in fetchWithTimeSlicing a sub-window whose fetch fails after its
\* retries is skipped without raising: the records collected so far are kept,
\* the next sub-window, if there is one, is fetched next, and the function
\* returns the records of the sub-windows that were fetched.
C34_FailedSubWindowSkipped ==
  [][ /\ (pc = "ts_fetch" /\ fails' = fails + 1 /\ sp_attempt = MAX_RETRIES - 1)
         => /\ pc' = "ts_fetch"
            /\ ts_i' = ts_i + 1
            /\ chunks' = chunks
            /\ timeSliceRecords' = timeSliceRecords
            /\ ts_i' < Len(chunks) => SPCalling'
      /\ pc' # "failed"
      /\ pc' = "ts_done" => timeSliceRecords' = timeSliceRecords ]_vars

\* One sub-window failed for good, the others were fetched, and the records of
\* those were returned.
C34_Witness ==
  /\ pc = "ts_done"
  /\ sp_thrown = MAX_RETRIES
  /\ fails = MAX_RETRIES
  /\ ts_i = Len(chunks)
  /\ Len(chunks) >= 4
  /\ Len(timeSliceRecords) >= 2

\* C35: the offset-paging phase of fetchReportMultiPage issues at most 5
\* page-fetch operations per call, whatever the limit and the answers: while
\* the loop runs, the calls of fetchReportSinglePage made so far are the pages
\* counted, the one in progress included, and a fetch is due only with fewer
\* than 5 pages counted.
C35_AtMostFivePageFetches ==
  /\ pageCount <= MaxOffsetPages
  /\ pc = "mp_loop"
     => /\ pageCount < MaxOffsetPages
        /\ spCalls = pageCount + (IF sp_attempt > 0 THEN 1 ELSE 0)
  /\ (pc \in {"done", "failed"} /\ chunks = << >> /\ ~chunksOverflow
        /\ response.fetchMethod # "single-page" /\ enh_i = 0)
     => spCalls <= MaxOffsetPages

\* Five pages were fetched, empty ones among them, and the loop was left with
\* fewer records than the limit.
C35_Witness ==
  /\ pc = "done"
  /\ pageCount = MaxOffsetPages
  /\ spCalls = MaxOffsetPages
  /\ Len(allRecords) < recordLimit
  /\ hasMoreData

\* C36: in every fetchReport run a cursor adopted for the next request was not
\* in the seen-set before and is put into it, the current cursor is always a
\* member of the seen-set, and the number of pages received is at most the
\* number of distinct cursor values returned plus one.
C36_AdoptedCursorsAreFresh ==
  [][ /\ startKey' # startKey
         => /\ startKey' \notin seenStartKeys
            /\ seenStartKeys' = seenStartKeys \cup {startKey'}
            /\ startKey' = fr_lastNext'
      /\ startKey' # NoKey => startKey' \in seenStartKeys'
      /\ seenStartKeys \subseteq seenStartKeys'
      /\ fr_pages' <= Cardinality(fr_returned') + 1 ]_vars

\* Three pages were received, with a fresh cursor after the first and after
\* the second.
C36_Witness ==
  /\ fr_pc = "done"
  /\ fr_pages = 3
  /\ Cardinality(seenStartKeys) = 2
  /\ startKey # NoKey

RECURSIVE KeptRows(_, _)
KeptRows(out, k) ==
  IF k > Len(out) THEN << >>
  ELSE LET id   == Rec(out[k]).call_id
           kept == id = "" \/ \A j \in 1..(k - 1) : Rec(out[j]).call_id # id
       IN (IF kept THEN <<out[k]>> ELSE << >>) \o KeptRows(out, k + 1)

\* C38: for the queueCalls report fetchReport returns, in fetch order, exactly
\* the first row seen for each call_id together with every row that has no
\* call_id.
C38_FirstRowPerCall ==
  (fn_pc = "done" /\ fn_name = "queueCalls") => fn_output = KeptRows(fn_input, 1)

\* Four rows fetched: two rows of one call, and two rows without a call_id.
C38_Witness ==
  /\ fn_pc = "done"
  /\ fn_name = "queueCalls"
  /\ Len(fn_input) = 4
  /\ Len(fn_output) = 3
  /\ Cardinality({k \in 1..Len(fn_output) : Rec(fn_output[k]).call_id = ""}) = 2
  /\ \E k \in 1..4 : Rec(fn_input[k]).second_row /\ Rec(fn_input[k]).call_id # ""

\* C31 (as stated): when fetched items embed a cdrs array, every embedded CDR
\* of every such item is in the result, and so is every fetched record that
\* has no cdrs array; for fetchReport as well as fetchReportSinglePage.
C31_EveryCdrAndRecordPresent ==
  (fn_pc = "done" /\ fn_name \in {"fetchReport", "fetchReportSinglePage"})
  => \A k \in 1..Len(fn_input) : \A j \in 1..Len(fn_input[k].recs) :
       \E n \in 1..Len(fn_output) : fn_output[n] = fn_input[k].recs[j]

\* C32 (as stated): for a body that is a mapping whose keys are not all
\* numeric, every fetch function produces one record per key/value pair of the
\* mapping, and that record carries the pair's key.
C32_OneKeyedRecordPerPair ==
  (fn_pc = "done" /\ Len(fn_input) > 0 /\ ~AllNumericKeys(fn_input))
  => /\ Len(fn_output) = Len(fn_input)
     /\ \A n \in 1..Len(fn_input) :
          /\ fn_output[n].kind = "value"
          /\ fn_output[n].key = fn_input[n].key
          /\ fn_output[n].value = fn_input[n].value.rec

\* C39: fetchAgentStatus never returns more than min(maxRows, 500) rows, and
\* whenever it returns normally either rows is non-empty or next is null.
C39_RowsCappedAndNonEmptyOrLast ==
  as_pc \in {"done", "returned"}
  => /\ Len(as_records) <= as_maxRows
     /\ Len(as_records) <= PageSize
     /\ (Len(as_records) > 0 \/ as_next = NoKey)

\* A call with maxRows above the page size has returned a full page that is
\* not the last one.
C39_Witness ==
  /\ as_pc = "done"
  /\ as_driver = "single"
  /\ as_maxRows > PageSize
  /\ Len(as_records) = PageSize
  /\ as_next # NoKey

\* C40 (as stated): fetchAllAgentStatus, and the fetchAgentStatus loop it
\* drives, terminates after finitely many page fetches whatever the upstream
\* answers.
C40_AgentStatusTerminates == <>ASTerminated

\* C10 (as stated): fetchWithTimeSlicing terminates for every range with
\* startDate < endDate.
C10_SlicingTerminates == <>TSTerminated

====
